---- MODULE Spec2Model ----
(***************************************************************************)
(* A model of guymor4/raytracer: the SAH BVH builder and its flattening    *)
(* (src/src/BVH.ts), the renderer's frame loop and controls                *)
(* (src/src/main.ts, src/src/UIControls.ts), the accumulator pass          *)
(* (src/public/debug.wgsl, fs_main) and the path-tracing kernel            *)
(* (the WGSL part of src/src/BVH.ts).                                      *)
(*                                                                         *)
(* JavaScript null / undefined / NaN are modelled as the empty tuple <<>>  *)
(* and a present value v as the one-element tuple <<v>>.  JavaScript       *)
(* arrays are 0-based; the sequences here are 1-based, so element i of an  *)
(* array a is a[i + 1].                                                    *)
(***************************************************************************)
EXTENDS Integers, Sequences, FiniteSets, TLC

VARIABLES
    \* ---- BVH (class BVH) ----
    triangles,      \* BVH.triangles: the constructor's input list
    root,           \* BVH.root: <<>> (null) or <<node>>
    stats,          \* BVH.stats: <<>> (undefined) or <<record>>
    flat,           \* the last result of serializeBVH(): <<>> or <<record>>
    bvhPc,          \* "new" | "built" | "serialized"
    \* ---- the page: main(), UIControls, WebGPURenderer ----
    rendererPc,     \* where the call of main() that is followed stands: "unloaded" |
                    \* "creating" | "buffers" | "failed" | "created" | "rejected" |
                    \* "running"
    debugPipeline,  \* WebGPURenderer.debugPipeline is set
    controlsShown,  \* the controls this call of main() added are in the settings
    otherMains,     \* the other calls of main(): how many are inside Create and
                    \* how many have their controls in the settings
    sceneKind,      \* "none" | "empty" | "geometry": the scene main() loaded
    localStorage,   \* localStorage['Samples per pixel: ']: <<>> (no item) or <<string>>
    frameIndex,     \* WebGPURenderer.frameIndex
    samplesPerPixel,\* WebGPURenderer.samplesPerPixel: <<n>> or <<>> (NaN)
    uniforms,       \* the uniform buffer as the last queue.writeBuffer leaves
                    \* it: <<>> or <<record>>
    sinceReset,     \* <<>> before any resetAccumulation(), else <<executions
                    \* of render() since the last one>>
    \* the GPU: queue.submit returns at once and the frame is executed later
    gpuQueue,       \* the frames submitted and not yet executed, the oldest
                    \* first: the uniforms each reads, and its number since
                    \* the last reset
    ray,            \* the kernel in flight: <<>> or <<the pixel's ray, by what
                    \* it intersects>>
    traversal,      \* <<>> or <<the locals of ray_bvh_triangles>>
    intermediate,   \* the intermediate texture (rgba16float) at one pixel
    accumulation,   \* the accumulation textures R, G, B at that pixel
    \* history of the frames the GPU has executed, for stating the claims
    framesRendered, \* frames executed since main()
    emitted,        \* the set of colours the kernel emitted for the pixel since main()
    lastEstimate,   \* the colour the kernel emitted in the latest frame
    nodesVisited,   \* the bvh_nodes indices the latest frame's path read
    lastFrame,      \* <<>> or <<the latest frame executed, as it was queued>>
    \* ---- one call of ray_trace (compute kernel) ----
    pathScene,      \* the materials a ray can hit
    path,           \* the locals of ray_trace: color, light, is_specular_bounce, i
    pathPc,         \* "loop" | "returned"
    rrProduct,      \* history: the product of the probabilities p of the
                    \* Russian-roulette tests the path survived
    pathTrace,      \* history: the steps the iterations took, with the loop
                    \* index i of each
    \* ---- power_heuristic ----
    pdfA, pdfB,     \* two probability densities
    weightAB,       \* <<>> or <<power_heuristic(pdfA, pdfB)>>
    weightBA,       \* <<>> or <<power_heuristic(pdfB, pdfA)>>
    \* ---- the 'BVH Depth' control and the wireframe of the debug pass ----
    debugPc,        \* "unloaded" | "running"
    debugTris,      \* the triangles of the loaded scene
    depthStored,    \* localStorage['BVH Depth: ']: <<>> or <<string>>
    depthEntered,   \* <<>> or <<the value of the control at the last update>>
    maxDepthPassed, \* <<>> or <<the depth given to the wireframe builder>>
    wireframe,      \* the nodes the builder enumerated: <<[boundingBox, depth]>>
    \* ---- one call of loadScene, then createBuffersAndBindGroups ----
    loadPc,         \* "start" | "models" | "resolved" | "rejected" | "packed"
    manifest,       \* the scene manifest: spheres, triangles, models
    sceneTriangles, \* scene.triangles, extended model by model
    modelIndex,     \* position of the loop over scene.models (1-based)
    parser,         \* <<>> or <<the locals of the running parseOBJ>>
    parsedLog,      \* history: the results of parseOBJ, in call order
    failedMeshes,   \* history: the models whose mesh fetch rejected or was
                    \* answered with a non-OK response
    loadError,      \* <<>> or <<the error loadScene rejected with>>
    loadResult,     \* <<>> or <<the Scene loadScene returned>>
    geometry,       \* <<>> or <<the data of the spheres and triangles buffers>>
    \* ---- render() and the GPU queue ----
    canvas,         \* <<>> or <<[width, height]>>: WebGPURenderer.resolution
    debugEnabled,   \* WebGPURenderer.debugEnabled
    frameSeq,       \* WebGPURenderer.frameIndex, no reset in between
    lastRender,     \* <<>> or <<the calls of the latest render(), in order>>
    queue,          \* the operations handed to device.queue, not yet executed
    timeline,       \* history: the operations the GPU executed, in order
    intermediateWrites, \* the texel writes of the latest compute pass (sampled)
    accumulationWrites, \* the texel writes of the latest accumulator pass (sampled)
    texelWriters,   \* accumulation texel -> number of fragments of the latest
                    \* accumulator pass that wrote it (sampled texels)
    \* ---- one call of ray_sphere_intersect ----
    sphereRay,      \* <<>> or <<the ray: origin, direction>>
    sphereObj,      \* <<>> or <<the sphere: center, radius>>
    sphereHit,      \* <<>> or <<the HitInfo returned>>
    \* ---- one call of ray_bvh_triangles ----
    travTree,       \* BVH.root of the scene: <<>> (null) or <<node>>
    travBuffers,    \* <<>> or <<the bvh_nodes and bvh_triangle_indices buffers>>
    travRay,        \* <<>> or <<the ray, by what it intersects>>
    trav,           \* <<>> or <<the locals of ray_bvh_triangles>>
    travLog,        \* history: the pops, pushes and dropped pushes, in order
    \* ---- buildBVH, one call of splitNode at a time ----
    splitTris,      \* BVH.triangles
    splitWork,      \* the nodes whose splitNode call is still to come, the
                    \* next one first
    splitLog,       \* history: the calls of splitNode, in call order
    \* ---- the page over several calls of main() ----
    appMains,       \* one record per call of main(): its position and the
                    \* renderer it created
    appSelected,    \* localStorage['Scene: ']: the option selected
    appErrors       \* history: the calls of showError, in order

bvhVars == <<triangles, root, stats, flat, bvhPc>>

callVars == <<debugPipeline, controlsShown, otherMains>>

\* What the renderer holds on the host, the GPU's side of the queue, and the
\* history of the frames executed
hostVars == <<frameIndex, samplesPerPixel, uniforms, sinceReset>>

deviceVars == <<gpuQueue, ray, traversal, intermediate, accumulation>>

frameHistory == <<framesRendered, emitted, lastEstimate, nodesVisited, lastFrame>>

pageVars == <<rendererPc, callVars, sceneKind, localStorage, hostVars, deviceVars,
              frameHistory>>

pathVars == <<pathScene, path, pathPc, rrProduct, pathTrace>>

misVars == <<pdfA, pdfB, weightAB, weightBA>>

debugVars == <<debugPc, debugTris, depthStored, depthEntered, maxDepthPassed,
               wireframe>>

\* The variables of the specifications of the second half of the module
loaderVars == <<loadPc, manifest, sceneTriangles, modelIndex, parser, parsedLog, failedMeshes,
                loadError, loadResult, geometry>>

frameVars == <<canvas, debugEnabled, frameSeq, lastRender, queue, timeline,
               intermediateWrites, accumulationWrites, texelWriters>>

sphereVars == <<sphereRay, sphereObj, sphereHit>>

travVars == <<travTree, travBuffers, travRay, trav, travLog>>

splitVars == <<splitTris, splitWork, splitLog>>

appVars == <<appMains, appSelected, appErrors>>

lateVars == <<splitVars, appVars>>

restVars == <<frameVars, sphereVars, travVars, lateVars>>

\* The groups declared before splitVars
earlyVars == <<bvhVars, pageVars, pathVars, misVars, debugVars, loaderVars,
               frameVars, sphereVars, travVars>>

moreVars == <<debugVars, loaderVars, restVars>>

\* What the actions of the page leave alone
pageRest == <<bvhVars, pathVars, misVars, moreVars>>

vars == <<bvhVars, pageVars, pathVars, misVars, moreVars>>

\* Each specification below drives one group of variables and holds the
\* other groups at these values.
BVHIdle ==
    /\ triangles = <<>> /\ root = <<>> /\ stats = <<>> /\ flat = <<>>
    /\ bvhPc = "idle"

PageIdle ==
    /\ rendererPc = "idle" /\ sceneKind = "none" /\ localStorage = <<>>
    /\ debugPipeline = FALSE /\ controlsShown = FALSE /\ otherMains = <<>>
    /\ frameIndex = 0 /\ samplesPerPixel = <<>> /\ uniforms = <<>>
    /\ intermediate = <<>> /\ accumulation = <<>> /\ framesRendered = 0
    /\ sinceReset = <<>> /\ emitted = {} /\ lastEstimate = <<>>
    /\ nodesVisited = {} /\ ray = <<>> /\ traversal = <<>>
    /\ gpuQueue = <<>> /\ lastFrame = <<>>

PathIdle ==
    /\ pathScene = {} /\ path = <<>> /\ pathPc = "idle" /\ rrProduct = <<>>
    /\ pathTrace = <<>>

MISIdle ==
    /\ pdfA = <<>> /\ pdfB = <<>> /\ weightAB = <<>> /\ weightBA = <<>>

DebugIdle ==
    /\ debugPc = "idle" /\ debugTris = <<>> /\ depthStored = <<>>
    /\ depthEntered = <<>> /\ maxDepthPassed = <<>> /\ wireframe = <<>>

LoaderIdle ==
    /\ loadPc = "idle" /\ manifest = <<>> /\ sceneTriangles = <<>> /\ modelIndex = 0
    /\ parser = <<>> /\ parsedLog = <<>> /\ failedMeshes = {} /\ loadError = <<>>
    /\ loadResult = <<>> /\ geometry = <<>>

FrameIdle ==
    /\ canvas = <<>> /\ debugEnabled = FALSE /\ frameSeq = 0 /\ lastRender = <<>>
    /\ queue = <<>> /\ timeline = <<>> /\ intermediateWrites = {}
    /\ accumulationWrites = {} /\ texelWriters = <<>>

SphereIdle ==
    /\ sphereRay = <<>> /\ sphereObj = <<>> /\ sphereHit = <<>>

TravIdle ==
    /\ travTree = <<>> /\ travBuffers = <<>> /\ travRay = <<>> /\ trav = <<>>
    /\ travLog = <<>>

SplitIdle ==
    /\ splitTris = <<>> /\ splitWork = <<>> /\ splitLog = <<>>

AppIdle ==
    /\ appMains = <<>> /\ appSelected = <<>> /\ appErrors = <<>>

LateIdle == SplitIdle /\ AppIdle

RestIdle == FrameIdle /\ SphereIdle /\ TravIdle /\ LateIdle

EarlyIdle ==
    /\ BVHIdle /\ PageIdle /\ PathIdle /\ MISIdle /\ DebugIdle /\ LoaderIdle
    /\ FrameIdle /\ SphereIdle /\ TravIdle

MoreIdle == DebugIdle /\ LoaderIdle /\ RestIdle

----------------------------------------------------------------------------
(* Bounds of the model *)

\* Largest number of triangles handed to the BVH constructor.
MaxTriangles == 4

\* Largest number of frames render() produces after one main().
MaxFrames == 2

----------------------------------------------------------------------------
(* Small arithmetic helpers *)

Min(a, b) == IF a <= b THEN a ELSE b
Max(a, b) == IF a >= b THEN a ELSE b
Abs(a) == IF a < 0 THEN -a ELSE a

SetMin(S) == CHOOSE x \in S : \A y \in S : x <= y
SetMax(S) == CHOOSE x \in S : \A y \in S : x >= y

null == <<>>

----------------------------------------------------------------------------
(* Float32Array stores.  Storing a JavaScript number in a Float32Array     *)
(* rounds it to the nearest single-precision value, ties to even.  The     *)
(* numbers of the BVH model are integers: an integer of magnitude up to    *)
(* 2^24 is stored unchanged, a larger one is rounded to the spacing of its *)
(* binade.                                                                 *)

TwoPow24 == 16777216

RECURSIVE SpacingF32(_, _)
SpacingF32(a, p) == IF a < TwoPow24 * p THEN p ELSE SpacingF32(a, 2 * p)

Fround(x) ==
    LET a    == Abs(x)
        p    == SpacingF32(a, 1)
        lo   == (a \div p) * p
        rem  == a - lo
        up   == IF 2 * rem > p THEN TRUE
                ELSE IF 2 * rem < p THEN FALSE
                ELSE ((lo \div p) % 2) = 1
        r    == IF up THEN lo + p ELSE lo
    IN  IF x < 0 THEN -r ELSE r

----------------------------------------------------------------------------
(* BVH build: src/src/BVH.ts, class BVH *)

\* The three vertices of triangle number idx (0-based) of the list tris.
Vertices(tris, idx) == <<tris[idx + 1].v0, tris[idx + 1].v1, tris[idx + 1].v2>>

ZeroBox == [min |-> <<0, 0, 0>>, max |-> <<0, 0, 0>>]

\* The set of coordinates on `axis` (1..3) of all vertices of the listed triangles.
Coords(tris, triangleIndices, axis) ==
    { Vertices(tris, triangleIndices[k])[v][axis] :
        k \in 1..Len(triangleIndices), v \in 1..3 }

\* A bounding box that looks at the first vertex of each triangle only.
boundingBoxOfFirstVertices(tris, triangleIndices) ==
    IF Len(triangleIndices) = 0 THEN ZeroBox
    ELSE LET c(a) == { Vertices(tris, triangleIndices[k])[1][a] :
                         k \in 1..Len(triangleIndices) }
         IN  [min |-> [a \in 1..3 |-> SetMin(c(a))],
              max |-> [a \in 1..3 |-> SetMax(c(a))]]

\* calculateBoundingBoxForTriangles: the running min/max over every vertex of
\* every listed triangle; the zero box for an empty list.
calculateBoundingBoxForTriangles(tris, triangleIndices) ==
    IF Len(triangleIndices) = 0 THEN ZeroBox
    ELSE [min |-> [a \in 1..3 |-> SetMin(Coords(tris, triangleIndices, a))],
          max |-> [a \in 1..3 |-> SetMax(Coords(tris, triangleIndices, a))]]

\* calculateSceneBoundingBox: the same over all triangles of the BVH.
calculateSceneBoundingBox(tris) ==
    IF Len(tris) = 0 THEN ZeroBox
    ELSE calculateBoundingBoxForTriangles(tris, [k \in 1..Len(tris) |-> k - 1])

\* calculateTriangleCentroid.  The code returns (v0 + v1 + v2) / 3 per axis;
\* the model keeps the numerator v0 + v1 + v2, i.e. the centroid in thirds,
\* so that it stays an integer.  Every use of a centroid is a comparison
\* with another centroid or with a split position (kept in sixths, see
\* findBestSAHSplit), which the common factor does not change.
calculateTriangleCentroid(tris, triangleIndex) ==
    [a \in 1..3 |-> tris[triangleIndex + 1].v0[a] + tris[triangleIndex + 1].v1[a]
                    + tris[triangleIndex + 1].v2[a]]

\* calculateSurfaceArea: 2 * (w*h + w*d + h*d).
calculateSurfaceArea(boundingBox) ==
    LET size == [a \in 1..3 |-> boundingBox.max[a] - boundingBox.min[a]]
    IN  2 * (size[1] * size[2] + size[1] * size[3] + size[2] * size[3])

\* Array.prototype.sort with the comparator (a, b) => key(a) - key(b): a stable
\* sort by ascending key.  InsertByCentroid puts x behind every element whose
\* key is not larger.
RECURSIVE InsertByCentroid(_, _, _, _)
InsertByCentroid(tris, sorted, x, axis) ==
    IF sorted = <<>> THEN <<x>>
    ELSE IF calculateTriangleCentroid(tris, sorted[Len(sorted)])[axis]
              <= calculateTriangleCentroid(tris, x)[axis]
         THEN Append(sorted, x)
         ELSE Append(InsertByCentroid(tris, SubSeq(sorted, 1, Len(sorted) - 1), x, axis),
                     sorted[Len(sorted)])

RECURSIVE SortByCentroid(_, _, _)
SortByCentroid(tris, indices, axis) ==
    IF indices = <<>> THEN <<>>
    ELSE InsertByCentroid(tris,
                          SortByCentroid(tris, SubSeq(indices, 1, Len(indices) - 1), axis),
                          indices[Len(indices)], axis)

----------------------------------------------------------------------------
(* JavaScript numbers of the cost computation: IEEE 754 double precision,
   round to nearest, ties to even.  A positive double is [e, m]: m holds the
   53 bits of the significand as five digits of 13 bits, the first digit
   being the leading 1, and e is the exponent of the leading bit; the value
   is m * 2^(e - 52).  Zero has m = <<0, 0, 0, 0, 0>>.  Exact intermediate
   values are sequences of 13-bit digits, most significant first, with the
   exponent of the last digit's lowest bit. *)

\* F applied to the value of v: v is evaluated once, as the value of a
\* const declaration is.
Bind(v, F(_)) == CHOOSE r \in { F(x) : x \in {v} } : TRUE

F64Zero == [e |-> 0, m |-> <<0, 0, 0, 0, 0>>]

F64Pow2(s) == <<1, 2, 4, 8, 16, 32, 64, 128, 256, 512, 1024, 2048, 4096, 8192>>[s + 1]

RECURSIVE BitLen(_)
BitLen(t) == IF t = 0 THEN 0 ELSE 1 + BitLen(t \div 2)

RECURSIVE F64ScaleUp(_, _)
F64ScaleUp(v, k) == IF k <= 0 THEN v ELSE F64ScaleUp(2 * v, k - 1)

\* The digits 1..i of x with carry added to digit i and the carries taken
\* upwards; the carry out of digit 1 makes the leading digits of the result.
RECURSIVE F64CarryFrom(_, _, _)
F64CarryFrom(x, i, carry) ==
    IF i = 0
    THEN IF carry < 8192 THEN <<carry>>
         ELSE Append(F64CarryFrom(x, 0, carry \div 8192), carry % 8192)
    ELSE Bind(x[i] + carry,
              LAMBDA t : Append(F64CarryFrom(x, i - 1, t \div 8192), t % 8192))

\* x, a sequence of numbers, as a sequence of digits below 8192.
F64Carry(x) == Bind(x, LAMBDA xs : F64CarryFrom(xs, Len(xs), 0))

\* The index of the first digit of x from i on that is not 0, or Len(x).
RECURSIVE F64FirstDigit(_, _)
F64FirstDigit(x, i) ==
    IF i < Len(x) /\ x[i] = 0 THEN F64FirstDigit(x, i + 1) ELSE i

\* x without its leading zero digits.
F64Strip(x) == Bind(x, LAMBDA xs : SubSeq(xs, F64FirstDigit(xs, 1), Len(xs)))

\* x shifted right by s bits (0..12), no bit lost: one more digit.
F64ShiftRight(x, s) ==
    Bind(<<x, F64Pow2(s), F64Pow2(13 - s)>>,
         LAMBDA a : [i \in 1..(Len(a[1]) + 1) |->
                        (IF i = 1 THEN 0 ELSE (a[1][i - 1] % a[2]) * a[3])
                        + (IF i <= Len(a[1]) THEN a[1][i] \div a[2] ELSE 0)])

\* The digits 1..i of x plus one in digit i.
RECURSIVE F64IncrementAt(_, _)
F64IncrementAt(x, i) ==
    IF i = 1 \/ x[i] + 1 < 8192 THEN [x EXCEPT ![i] = @ + 1]
    ELSE F64IncrementAt([x EXCEPT ![i] = 0], i - 1)

F64Increment(x) == Bind(x, LAMBDA xs : F64IncrementAt(xs, Len(xs)))

\* The double of lead exponent `lead` whose significand is the first five
\* digits of z (the first of them 1), rounded by the digits that follow.
F64RoundDigits(z, lead) ==
    Bind(SubSeq(z, 1, 5),
         LAMBDA m :
            IF ~(\/ z[6] > 4096
                 \/ /\ z[6] = 4096
                    /\ (m[5] % 2 = 1 \/ \E i \in 7..Len(z) : z[i] # 0))
            THEN [e |-> lead, m |-> m]
            ELSE Bind(F64Increment(m),
                      LAMBDA inc :
                         IF inc[1] = 2 THEN [e |-> lead + 1, m |-> <<1, 0, 0, 0, 0>>]
                         ELSE [e |-> lead, m |-> inc]))

\* The double nearest to the positive exact value x * 2^E, ties to even.
F64Round(x, E) ==
    Bind(F64Strip(F64Carry(x)),
         LAMBDA y :
            Bind(BitLen(y[1]) - 1,
                 LAMBDA s :
                    Bind(F64ShiftRight(y, s) \o <<0, 0, 0, 0>>,
                         LAMBDA z : F64RoundDigits(z, E + 13 * (Len(y) - 1) + s))))

\* The double of a non-negative integer.
F64FromInt(n) == IF n = 0 THEN F64Zero ELSE F64Round(<<n>>, 0)

\* `bits` bits of the quotient r / b, one at a time, after those of acc, and
\* the remainder.
RECURSIVE F64DivBits(_, _, _, _)
F64DivBits(r, b, bits, acc) ==
    IF bits = 0 THEN <<acc, r>>
    ELSE Bind(IF 2 * r >= b THEN <<2 * r - b, 2 * acc + 1>> ELSE <<2 * r, 2 * acc>>,
              LAMBDA st : F64DivBits(st[1], b, bits - 1, st[2]))

\* Thirteen bits of the quotient r / b and the remainder.
F64DivStep(r, b) ==
    IF b < 131072 THEN <<(r * 8192) \div b, (r * 8192) % b>>
    ELSE F64DivBits(r, b, 13, 0)

\* count digits of the quotient r / b, then a digit that is 1 when a
\* remainder is left.
RECURSIVE F64DivDigits(_, _, _)
F64DivDigits(r, b, count) ==
    IF count = 0 THEN <<IF r = 0 THEN 0 ELSE 1>>
    ELSE Bind(F64DivStep(r, b),
              LAMBDA st : <<st[1]>> \o F64DivDigits(st[2], b, count - 1))

\* aa / bb for integers of the same bit length, times 2^k.
F64DivScaled(aa, bb, k) ==
    F64Round(<<aa \div bb>> \o F64DivDigits(aa % bb, bb, 5), k - 78)

\* a / b for integers a >= 0 and b > 0 (both exact as doubles).
F64Div(a, b) ==
    Bind(<<a, b>>,
         LAMBDA p :
            IF p[1] = 0 THEN F64Zero
            ELSE Bind(BitLen(p[1]) - BitLen(p[2]),
                      LAMBDA k :
                         Bind(<<F64ScaleUp(p[1], -k), F64ScaleUp(p[2], k)>>,
                              LAMBDA q : F64DivScaled(q[1], q[2], k))))

\* x * n for a double x and an integer n >= 0.
F64MulInt(x, n) ==
    Bind(<<x, n>>,
         LAMBDA p :
            IF p[2] = 0 \/ p[1] = F64Zero THEN F64Zero
            ELSE F64Round([i \in 1..5 |-> p[2] * p[1].m[i]], p[1].e - 52))

\* hi + lo for doubles hi, lo > 0 with hi.e >= lo.e.
F64AddOrdered(hi, lo) ==
    Bind(<<(hi.e - lo.e) \div 13, (hi.e - lo.e) % 13>>,
         LAMBDA d :
            Bind(<<F64Carry([i \in 1..5 |-> hi.m[i] * F64Pow2(d[2])])
                       \o [i \in 1..d[1] |-> 0],
                   [i \in 1..(d[1] + 1) |-> 0] \o lo.m>>,
                 LAMBDA ab :
                    F64Round([i \in 1..(d[1] + 6) |-> ab[1][i] + ab[2][i]],
                             lo.e - 52)))

\* x + y for doubles x, y >= 0.
F64Add(x, y) ==
    Bind(<<x, y>>,
         LAMBDA p :
            IF p[1] = F64Zero THEN p[2]
            ELSE IF p[2] = F64Zero THEN p[1]
            ELSE IF p[1].e >= p[2].e THEN F64AddOrdered(p[1], p[2])
            ELSE F64AddOrdered(p[2], p[1]))

\* x < y for doubles x, y >= 0.
F64Less(x, y) ==
    Bind(<<x, y>>,
         LAMBDA p :
            IF p[2] = F64Zero THEN FALSE
            ELSE IF p[1] = F64Zero THEN TRUE
            ELSE \/ p[1].e < p[2].e
                 \/ /\ p[1].e = p[2].e
                    /\ \E i \in 1..5 : /\ p[1].m[i] < p[2].m[i]
                                       /\ \A j \in 1..(i - 1) : p[1].m[j] = p[2].m[j])

\* The cost of a candidate, lines 160-167 of BVH.ts:
\*   1.0 + 1.0 * (L / N * nL + R / N * nR)
\* for the surface areas L, R of the sides and N of the node (N > 0), every
\* operation rounded as JavaScript rounds it.
SAHCost(nodeSurfaceArea, leftSurfaceArea, leftCount, rightSurfaceArea, rightCount) ==
    LET leftProbability  == F64Div(leftSurfaceArea, nodeSurfaceArea)
        rightProbability == F64Div(rightSurfaceArea, nodeSurfaceArea)
    IN  F64Add(F64FromInt(1),
               F64Add(F64MulInt(leftProbability, leftCount),
                      F64MulInt(rightProbability, rightCount)))

\* One candidate of findBestSAHSplit's double loop: axis (1..3, the code's
\* 0..2 plus one) and split index i (1..n-1).  `position` is the code's
\* (sorted[i-1].centroid + sorted[i].centroid) * 0.5 in sixths; `cost` is the
\* code's cost, a double:
\*   cost = 1 + (SA_L / SA_N) * nL + (SA_R / SA_N) * nR.
SAHCandidate(tris, node, axis, i) ==
    LET sorted == SortByCentroid(tris, node.triangleIndices, axis)
        n      == Len(sorted)
        leftTriangles  == SubSeq(sorted, 1, i)
        rightTriangles == SubSeq(sorted, i + 1, n)
        leftSurfaceArea  ==
            calculateSurfaceArea(calculateBoundingBoxForTriangles(tris, leftTriangles))
        rightSurfaceArea ==
            calculateSurfaceArea(calculateBoundingBoxForTriangles(tris, rightTriangles))
    IN  [axis     |-> axis,
         position |-> calculateTriangleCentroid(tris, sorted[i])[axis]
                      + calculateTriangleCentroid(tris, sorted[i + 1])[axis],
         cost     |-> SAHCost(calculateSurfaceArea(node.boundingBox),
                              leftSurfaceArea, Len(leftTriangles),
                              rightSurfaceArea, Len(rightTriangles))]

\* findBestSAHSplit's double loop from candidate k on (axis-major, then split
\* index), lines 117-176: `best` is null while bestCost is Infinity, else the
\* candidate kept so far; a candidate replaces it when its cost is less.
RECURSIVE SAHScan(_, _, _, _)
SAHScan(tris, node, k, best) ==
    IF k > 3 * (Len(node.triangleIndices) - 1) THEN best
    ELSE Bind(SAHCandidate(tris, node,
                           ((k - 1) \div (Len(node.triangleIndices) - 1)) + 1,
                           ((k - 1) % (Len(node.triangleIndices) - 1)) + 1),
              LAMBDA c :
                 IF best = null THEN SAHScan(tris, node, k + 1, <<c>>)
                 ELSE IF F64Less(c.cost, best[1].cost)
                      THEN SAHScan(tris, node, k + 1, <<c>>)
                      ELSE SAHScan(tris, node, k + 1, best))

\* findBestSAHSplit: null, or the first candidate (axis-major, then split
\* index) of least cost, provided that cost is below the leaf cost n.  With a
\* node of surface area 0 every cost is 0/0 = NaN, no candidate compares
\* below Infinity, and the result is null.
findBestSAHSplit(tris, node) ==
    IF calculateSurfaceArea(node.boundingBox) = 0 \/ Len(node.triangleIndices) < 2
    THEN null
    ELSE Bind(SAHScan(tris, node, 1, null),
              LAMBDA best :
                 IF ~F64Less(best[1].cost, F64FromInt(Len(node.triangleIndices)))
                 THEN null
                 ELSE best)

\* splitNode, lines 246-253: the triangles whose centroid on the split axis is
\* below the split position, in the node's order.
partitionLeft(tris, triangleIndices, bestSplit) ==
    SelectSeq(triangleIndices,
              LAMBDA t : 2 * calculateTriangleCentroid(tris, t)[bestSplit.axis]
                           < bestSplit.position)

\* splitNode, lines 246-253: the else branch, every other triangle.
partitionRight(tris, triangleIndices, bestSplit) ==
    SelectSeq(triangleIndices,
              LAMBDA t : ~(2 * calculateTriangleCentroid(tris, t)[bestSplit.axis]
                             < bestSplit.position))

\* The centroid comparison alone, without the median fallback.
splitListsAsCompared(tris, triangleIndices, bestSplit) ==
    <<partitionLeft(tris, triangleIndices, bestSplit),
      partitionRight(tris, triangleIndices, bestSplit)>>

\* The median fallback that cuts the node's list as it stands, unsorted.
splitListsUnsorted(tris, triangleIndices, bestSplit) ==
    LET leftTriangles  == partitionLeft(tris, triangleIndices, bestSplit)
        rightTriangles == partitionRight(tris, triangleIndices, bestSplit)
        mid            == Len(triangleIndices) \div 2
    IN  IF Len(leftTriangles) = 0 \/ Len(rightTriangles) = 0
        THEN <<SubSeq(triangleIndices, 1, mid),
               SubSeq(triangleIndices, mid + 1, Len(triangleIndices))>>
        ELSE <<leftTriangles, rightTriangles>>

\* The median fallback with its right slice starting one element late.
splitListsSliceLate(tris, triangleIndices, bestSplit) ==
    LET leftTriangles  == partitionLeft(tris, triangleIndices, bestSplit)
        rightTriangles == partitionRight(tris, triangleIndices, bestSplit)
        mid            == Len(triangleIndices) \div 2
        sorted         == SortByCentroid(tris, triangleIndices, bestSplit.axis)
    IN  IF Len(leftTriangles) = 0 \/ Len(rightTriangles) = 0
        THEN <<SubSeq(sorted, 1, mid), SubSeq(sorted, mid + 2, Len(sorted))>>
        ELSE <<leftTriangles, rightTriangles>>

\* splitNode, lines 255-269: the pair <<left, right>> of index lists the
\* children get.  When the centroid partition leaves a side empty the node's
\* list is sorted on the split axis and cut at floor(n / 2).
splitLists(tris, triangleIndices, bestSplit) ==
    LET leftTriangles  == partitionLeft(tris, triangleIndices, bestSplit)
        rightTriangles == partitionRight(tris, triangleIndices, bestSplit)
        mid            == Len(triangleIndices) \div 2
        sorted         == SortByCentroid(tris, triangleIndices, bestSplit.axis)
    IN  IF Len(leftTriangles) = 0 \/ Len(rightTriangles) = 0
        THEN <<SubSeq(sorted, 1, mid), SubSeq(sorted, mid + 1, Len(sorted))>>
        ELSE <<leftTriangles, rightTriangles>>

\* The node object literal of buildBVH and splitNode.
NewNode(tris, triangleIndices, boundingBox, depth) ==
    [boundingBox     |-> boundingBox,
     triangleIndices |-> triangleIndices,
     leftChild       |-> null,
     rightChild      |-> null,
     isLeaf          |-> FALSE,
     depth           |-> depth]

\* splitNode: the node after the recursion below it has finished.
RECURSIVE splitNode(_, _)
splitNode(tris, node) ==
    IF Len(node.triangleIndices) <= 1
    THEN [node EXCEPT !.isLeaf = TRUE]
    ELSE LET bestSplit == findBestSAHSplit(tris, node)
         IN  IF bestSplit = null
             THEN [node EXCEPT !.isLeaf = TRUE]
             ELSE LET lists == splitLists(tris, node.triangleIndices, bestSplit[1])
                      left  == NewNode(tris, lists[1],
                                   calculateBoundingBoxForTriangles(tris, lists[1]),
                                   node.depth + 1)
                      right == NewNode(tris, lists[2],
                                   calculateBoundingBoxForTriangles(tris, lists[2]),
                                   node.depth + 1)
                  IN  [node EXCEPT !.triangleIndices = <<>>,
                                   !.leftChild  = <<splitNode(tris, left)>>,
                                   !.rightChild = <<splitNode(tris, right)>>]

\* buildBVH: the root, or null for an empty triangle list.
buildBVH(tris) ==
    IF Len(tris) = 0 THEN null
    ELSE <<splitNode(tris,
                     NewNode(tris, [k \in 1..Len(tris) |-> k - 1],
                             calculateSceneBoundingBox(tris), 0))>>

RECURSIVE collectBVHStats(_, _)

\* Statistics that pass the parent's depth, not depth + 1, to the children.
collectBVHStatsSameDepth(node, depth) ==
    LET own == [totalNodes     |-> 1,
                leafNodes      |-> IF node.isLeaf THEN 1 ELSE 0,
                totalTriangles |-> IF node.isLeaf THEN Len(node.triangleIndices) ELSE 0,
                maxDepth       |-> depth]
        add(s, child) ==
            IF child = null THEN s
            ELSE LET c == collectBVHStats(child[1], depth)
                 IN  [totalNodes     |-> s.totalNodes + c.totalNodes,
                      leafNodes      |-> s.leafNodes + c.leafNodes,
                      totalTriangles |-> s.totalTriangles + c.totalTriangles,
                      maxDepth       |-> Max(s.maxDepth, c.maxDepth)]
    IN  add(add(own, node.leftChild), node.rightChild)

\* collectBVHStats(node, depth).
collectBVHStats(node, depth) ==
    LET own == [totalNodes     |-> 1,
                leafNodes      |-> IF node.isLeaf THEN 1 ELSE 0,
                totalTriangles |-> IF node.isLeaf THEN Len(node.triangleIndices) ELSE 0,
                maxDepth       |-> depth]
        add(s, child) ==
            IF child = null THEN s
            ELSE LET c == collectBVHStats(child[1], depth + 1)
                 IN  [totalNodes     |-> s.totalNodes + c.totalNodes,
                      leafNodes      |-> s.leafNodes + c.leafNodes,
                      totalTriangles |-> s.totalTriangles + c.totalTriangles,
                      maxDepth       |-> Max(s.maxDepth, c.maxDepth)]
    IN  add(add(own, node.leftChild), node.rightChild)

\* flattenBVH with the right subtree flattened before the left one: the right
\* child follows its parent in the array and the left child comes after the
\* whole right subtree.
RECURSIVE flattenBVHRightFirst(_, _, _)
flattenBVHRightFirst(node, nodeList, triangleIndexList) ==
    LET currentIndex == Len(nodeList)
        entry  == [node |-> node, triangleStart |-> <<>>,
                   leftIndex |-> <<>>, rightIndex |-> <<>>]
        pushed == Append(nodeList, entry)
    IN  IF node.isLeaf
        THEN [nodeList |-> [pushed EXCEPT ![currentIndex + 1].triangleStart =
                                              <<Len(triangleIndexList)>>],
              triangleIndexList |-> triangleIndexList \o node.triangleIndices,
              index |-> currentIndex]
        ELSE LET afterRight ==
                   IF node.rightChild # null
                   THEN flattenBVHRightFirst(node.rightChild[1], pushed,
                                             triangleIndexList)
                   ELSE [nodeList |-> pushed, triangleIndexList |-> triangleIndexList,
                         index |-> -1]
                 rset ==
                   IF node.rightChild # null
                   THEN [afterRight.nodeList EXCEPT ![currentIndex + 1].rightIndex =
                                                        <<afterRight.index>>]
                   ELSE afterRight.nodeList
                 afterLeft ==
                   IF node.leftChild # null
                   THEN flattenBVHRightFirst(node.leftChild[1], rset,
                                             afterRight.triangleIndexList)
                   ELSE [nodeList |-> rset,
                         triangleIndexList |-> afterRight.triangleIndexList,
                         index |-> -1]
                 lset ==
                   IF node.leftChild # null
                   THEN [afterLeft.nodeList EXCEPT ![currentIndex + 1].leftIndex =
                                                       <<afterLeft.index>>]
                   ELSE afterLeft.nodeList
             IN  [nodeList |-> lset,
                  triangleIndexList |-> afterLeft.triangleIndexList,
                  index |-> currentIndex]

\* flattenBVH(node, nodeList, triangleIndexList): the lists after the call and
\* the index it returns.  An entry of nodeList is the node object together
\* with the properties the traversal sets on it (triangleStart, leftIndex,
\* rightIndex; <<>> while unset).  The code sets leftIndex and rightIndex on
\* the node after the recursive calls return; the node object is shared with
\* the list, so the list entry shows them.
RECURSIVE flattenBVH(_, _, _)
flattenBVH(node, nodeList, triangleIndexList) ==
    LET currentIndex == Len(nodeList)
        entry  == [node |-> node, triangleStart |-> <<>>,
                   leftIndex |-> <<>>, rightIndex |-> <<>>]
        pushed == Append(nodeList, entry)
    IN  IF node.isLeaf
        THEN [nodeList |-> [pushed EXCEPT ![currentIndex + 1].triangleStart =
                                              <<Len(triangleIndexList)>>],
              triangleIndexList |-> triangleIndexList \o node.triangleIndices,
              index |-> currentIndex]
        ELSE LET afterLeft ==
                   IF node.leftChild # null
                   THEN flattenBVH(node.leftChild[1], pushed, triangleIndexList)
                   ELSE [nodeList |-> pushed, triangleIndexList |-> triangleIndexList,
                         index |-> -1]
                 lset ==
                   IF node.leftChild # null
                   THEN [afterLeft.nodeList EXCEPT ![currentIndex + 1].leftIndex =
                                                       <<afterLeft.index>>]
                   ELSE afterLeft.nodeList
                 afterRight ==
                   IF node.rightChild # null
                   THEN flattenBVH(node.rightChild[1], lset, afterLeft.triangleIndexList)
                   ELSE [nodeList |-> lset,
                         triangleIndexList |-> afterLeft.triangleIndexList, index |-> -1]
                 rset ==
                   IF node.rightChild # null
                   THEN [afterRight.nodeList EXCEPT ![currentIndex + 1].rightIndex =
                                                        <<afterRight.index>>]
                   ELSE afterRight.nodeList
             IN  [nodeList |-> rset,
                  triangleIndexList |-> afterRight.triangleIndexList,
                  index |-> currentIndex]

\* JavaScript's `x || d` for a number or undefined x: d when x is undefined or 0.
OrDefault(x, d) == IF x = <<>> THEN d ELSE IF x[1] = 0 THEN d ELSE x[1]

\* The node layout with a padding slot written after max as well (line 487
\* of BVH.ts live), which moves the two index slots and the leaf flag by one.
serializeNodePadded(entry) ==
    LET node == entry.node
    IN  <<Fround(node.boundingBox.min[1]), Fround(node.boundingBox.min[2]),
          Fround(node.boundingBox.min[3]), Fround(0),
          Fround(node.boundingBox.max[1]), Fround(node.boundingBox.max[2]),
          Fround(node.boundingBox.max[3]), Fround(0)>>
        \o (IF node.isLeaf
            THEN <<Fround(OrDefault(entry.triangleStart, 0)),
                   Fround(Len(node.triangleIndices)), Fround(1)>>
            ELSE <<Fround(OrDefault(entry.leftIndex, -1)),
                   Fround(OrDefault(entry.rightIndex, -1)), Fround(0)>>)
        \o <<Fround(0)>>

\* serializeBVH, lines 476-506: the twelve Float32Array slots of one node.
serializeNode(entry) ==
    LET node == entry.node
    IN  <<Fround(node.boundingBox.min[1]), Fround(node.boundingBox.min[2]),
          Fround(node.boundingBox.min[3]), Fround(0),
          Fround(node.boundingBox.max[1]), Fround(node.boundingBox.max[2]),
          Fround(node.boundingBox.max[3])>>
        \o (IF node.isLeaf
            THEN <<Fround(OrDefault(entry.triangleStart, 0)),
                   Fround(Len(node.triangleIndices)), Fround(1)>>
            ELSE <<Fround(OrDefault(entry.leftIndex, -1)),
                   Fround(OrDefault(entry.rightIndex, -1)), Fround(0)>>)
        \o <<Fround(0), Fround(0)>>

RECURSIVE ConcatNodes(_)
ConcatNodes(entries) ==
    IF entries = <<>> THEN <<>>
    ELSE ConcatNodes(SubSeq(entries, 1, Len(entries) - 1))
         \o serializeNode(entries[Len(entries)])

\* serializeBVH: nodes is the Float32Array (12 numbers per node),
\* triangleIndices the Uint32Array (the indices are below 2^32 and stored
\* unchanged).
serializeBVH(rootNode) ==
    IF rootNode = null
    THEN [nodes |-> <<>>, triangleIndices |-> <<>>]
    ELSE LET f == flattenBVH(rootNode[1], <<>>, <<>>)
         IN  [nodes |-> ConcatNodes(f.nodeList),
              triangleIndices |-> f.triangleIndexList]

----------------------------------------------------------------------------
(* The BVH as a state machine: construct, then serialize *)

\* The triangles the model builds its scenes from (positions only; the BVH
\* reads no material).  TriA and TriC share their centroid on x and are apart
\* on y; TriB is apart from TriA on x; TriFar has a vertex coordinate,
\* 2^24 + 1, that single precision cannot hold.
TriA   == [v0 |-> <<0, 0, 0>>, v1 |-> <<3, 0, 0>>, v2 |-> <<0, 3, 0>>]
TriB   == [v0 |-> <<9, 0, 0>>, v1 |-> <<12, 0, 1>>, v2 |-> <<9, 3, 0>>]
TriC   == [v0 |-> <<0, 6, 0>>, v1 |-> <<3, 6, 1>>, v2 |-> <<0, 9, 0>>]
TriFar == [v0 |-> <<16777215, 0, 0>>, v1 |-> <<16777217, 0, 0>>,
           v2 |-> <<16777215, 1, 1>>]

TrianglePalette == {TriA, TriB, TriC, TriFar}

TriangleLists == UNION { [1..n -> TrianglePalette] : n \in 0..MaxTriangles }

BVHInit ==
    /\ triangles \in TriangleLists
    /\ root = null
    /\ stats = <<>>
    /\ flat = <<>>
    /\ bvhPc = "new"
    /\ PageIdle /\ PathIdle /\ MISIdle /\ MoreIdle

\* new BVH(triangles): buildBVH, then collectBVHStats when there is a root.
Construct ==
    /\ bvhPc = "new"
    /\ root' = buildBVH(triangles)
    /\ stats' = IF root' # null THEN <<collectBVHStats(root'[1], 0)>> ELSE <<>>
    /\ bvhPc' = "built"
    /\ UNCHANGED <<triangles, flat, pageVars, pathVars, misVars, moreVars>>

\* bvh.serializeBVH()
Serialize ==
    /\ bvhPc = "built"
    /\ flat' = <<serializeBVH(root)>>
    /\ bvhPc' = "serialized"
    /\ UNCHANGED <<triangles, root, stats, pageVars, pathVars, misVars, moreVars>>

BVHNext == Construct \/ Serialize

SpecBVH == BVHInit /\ [][BVHNext]_vars

----------------------------------------------------------------------------
(* Reading the trees *)

\* The triangle indices of the leaves below a node, left to right.
RECURSIVE LeafIndices(_)
LeafIndices(node) ==
    IF node.isLeaf THEN node.triangleIndices
    ELSE (IF node.leftChild = null THEN <<>> ELSE LeafIndices(node.leftChild[1]))
         \o (IF node.rightChild = null THEN <<>> ELSE LeafIndices(node.rightChild[1]))

Range(seq) == { seq[k] : k \in DOMAIN seq }

BoxContainsPoint(box, p) == \A a \in 1..3 : box.min[a] <= p[a] /\ p[a] <= box.max[a]

BoxContainsBox(outer, inner) ==
    \A a \in 1..3 : outer.min[a] <= inner.min[a] /\ inner.max[a] <= outer.max[a]

\* Every leaf's box holds the vertices of its triangles, every internal
\* node's box holds the boxes of its two children.
RECURSIVE Covered(_, _)
Covered(tris, node) ==
    IF node.isLeaf
    THEN \A k \in 1..Len(node.triangleIndices) : \A v \in 1..3 :
            BoxContainsPoint(node.boundingBox, Vertices(tris, node.triangleIndices[k])[v])
    ELSE /\ node.leftChild # null
         /\ node.rightChild # null
         /\ BoxContainsBox(node.boundingBox, node.leftChild[1].boundingBox)
         /\ BoxContainsBox(node.boundingBox, node.rightChild[1].boundingBox)
         /\ Covered(tris, node.leftChild[1])
         /\ Covered(tris, node.rightChild[1])

\* The largest depth field of the nodes of a tree.
RECURSIVE MaxDepthField(_)
MaxDepthField(node) ==
    Max(node.depth,
        Max(IF node.leftChild = null THEN 0 ELSE MaxDepthField(node.leftChild[1]),
            IF node.rightChild = null THEN 0 ELSE MaxDepthField(node.rightChild[1])))

\* The shader's view of node k of the flat array (struct BVHNode: min_bounds
\* at floats 0..2, max_bounds at 4..6, then the two slots and is_leaf).
FlatNodeAt(f, k) ==
    [min_bounds |-> <<f.nodes[12 * k + 1], f.nodes[12 * k + 2], f.nodes[12 * k + 3]>>,
     max_bounds |-> <<f.nodes[12 * k + 5], f.nodes[12 * k + 6], f.nodes[12 * k + 7]>>,
     left_or_triangle_start  |-> f.nodes[12 * k + 8],
     right_or_triangle_count |-> f.nodes[12 * k + 9],
     is_leaf |-> f.nodes[12 * k + 10]]

NoNode == [boundingBox |-> ZeroBox, triangleIndices |-> <<>>, leftChild |-> null,
           rightChild |-> null, isLeaf |-> FALSE, depth |-> -1]

\* The tree read back from the flat arrays, starting at node k: slot0/slot1
\* are child indices of an internal node and the slice
\* [triangleStart, triangleStart + triangleCount) of a leaf.  `fuel` bounds
\* the walk by the number of nodes.
RECURSIVE RebuildTree(_, _, _, _)
RebuildTree(f, k, depth, fuel) ==
    IF fuel = 0 \/ k < 0 \/ 12 * k + 12 > Len(f.nodes) THEN NoNode
    ELSE LET n == FlatNodeAt(f, k)
             box == [min |-> n.min_bounds, max |-> n.max_bounds]
         IN  IF 2 * n.is_leaf > 1
             THEN [boundingBox |-> box,
                   triangleIndices |->
                       [j \in 1..n.right_or_triangle_count |->
                           IF n.left_or_triangle_start + j \in DOMAIN f.triangleIndices
                           THEN f.triangleIndices[n.left_or_triangle_start + j]
                           ELSE -1],
                   leftChild |-> null, rightChild |-> null,
                   isLeaf |-> TRUE, depth |-> depth]
             ELSE [boundingBox |-> box,
                   triangleIndices |-> <<>>,
                   leftChild  |-> <<RebuildTree(f, n.left_or_triangle_start,
                                                depth + 1, fuel - 1)>>,
                   rightChild |-> <<RebuildTree(f, n.right_or_triangle_count,
                                                depth + 1, fuel - 1)>>,
                   isLeaf |-> FALSE, depth |-> depth]

\* A build-time tree with every box coordinate rounded to single precision.
RECURSIVE RoundBoxes(_)
RoundBoxes(node) ==
    [node EXCEPT
       !.boundingBox = [min |-> [a \in 1..3 |-> Fround(node.boundingBox.min[a])],
                        max |-> [a \in 1..3 |-> Fround(node.boundingBox.max[a])]],
       !.leftChild  = IF node.leftChild = null THEN null
                      ELSE <<RoundBoxes(node.leftChild[1])>>,
       !.rightChild = IF node.rightChild = null THEN null
                      ELSE <<RoundBoxes(node.rightChild[1])>>]

----------------------------------------------------------------------------
(* Claims about the BVH, checked under SpecBVH *)

\* C1 (BVH conservation): once the constructor has run on a non-empty list of
\* N triangles, the leaves' triangle indices taken together are 0..N-1, each
\* exactly once.
BVHConservation ==
    (bvhPc # "new" /\ Len(triangles) > 0) =>
        /\ root # null
        /\ Len(LeafIndices(root[1])) = Len(triangles)
        /\ Range(LeafIndices(root[1])) = 0..(Len(triangles) - 1)

\* C1 witness: a built tree of three triangles whose root is internal and
\* whose left child, over TriA and TriC (equal centroids on the split axis x),
\* was split by the median fallback: the centroid comparison put nothing left.
BVHConservationWitness ==
    /\ bvhPc = "built"
    /\ triangles = <<TriA, TriC, TriB>>
    /\ ~root[1].isLeaf
    /\ ~root[1].leftChild[1].isLeaf
    /\ LET sub == NewNode(triangles, <<0, 1>>,
                          calculateBoundingBoxForTriangles(triangles, <<0, 1>>), 1)
       IN  partitionLeft(triangles, <<0, 1>>, findBestSAHSplit(triangles, sub)[1]) = <<>>

\* C2 (BVH coverage): in the built tree every leaf's box contains all three
\* vertices of each of its triangles, and every internal node's box contains
\* the boxes of both children.
BVHCoverage ==
    (bvhPc # "new" /\ root # null) => Covered(triangles, root[1])

\* C2 witness: a built tree with an internal root and a leaf of two triangles.
BVHCoverageWitness ==
    /\ bvhPc = "built"
    /\ root # null
    /\ ~root[1].isLeaf
    /\ stats[1].totalTriangles > stats[1].leafNodes

\* C3 as stated (flattening round trip): the tree rebuilt from the output of
\* serializeBVH equals the build-time tree: same topology, same boxes, same
\* leaf contents.
FlattenRoundTripExact ==
    (bvhPc = "serialized" /\ root # null) =>
        RebuildTree(flat[1], 0, 0, Len(flat[1].nodes) \div 12) = root[1]

\* C3 as amended: the rebuilt tree has the topology, depths and leaf contents
\* of the build-time tree, and each box is the build-time box rounded to
\* single precision.
FlattenRoundTripRounded ==
    (bvhPc = "serialized" /\ root # null) =>
        RebuildTree(flat[1], 0, 0, Len(flat[1].nodes) \div 12) = RoundBoxes(root[1])

\* C3 witness: a serialized tree of at least five nodes one of whose boxes
\* changes in the Float32Array.
FlattenRoundTripWitness ==
    /\ bvhPc = "serialized"
    /\ root # null
    /\ Len(flat[1].nodes) >= 60
    /\ RoundBoxes(root[1]) # root[1]

\* C8 (BVH statistics): for N >= 1 triangles getBVHStats() reports
\* totalTriangles = N, totalNodes <= 2 * leafNodes - 1, and maxDepth is the
\* largest depth field in the tree.
BVHStatsCorrect ==
    (bvhPc # "new" /\ Len(triangles) > 0) =>
        /\ stats # <<>>
        /\ stats[1].totalTriangles = Len(triangles)
        /\ stats[1].totalNodes <= 2 * stats[1].leafNodes - 1
        /\ stats[1].maxDepth = MaxDepthField(root[1])

\* C8 witness: a built tree of depth at least 2.
BVHStatsWitness ==
    /\ bvhPc = "built"
    /\ stats # <<>>
    /\ stats[1].maxDepth >= 2
    /\ stats[1].totalNodes >= 5

----------------------------------------------------------------------------
(* Shader arithmetic

   The shaders compute in f32.  The model computes the same expressions in
   exact rational arithmetic: a number is a pair <<n, d>> in lowest terms
   with d > 0, and a vec3<f32> is a triple of such pairs.  The rounding of
   f32 (relative error 2^-24 per operation) is left out there; the rounding
   of a store into the rgba16float texture is modelled (F16), and
   power_heuristic on its own is computed in f32 with its rounding, underflow
   and overflow (F32Mul, F32Add, F32Div).  A JavaScript number is written
   the same way. *)

NaN == <<0, 0>>

Inf == <<1, 0>>

RECURSIVE GCD(_, _)
GCD(a, b) == IF b = 0 THEN a ELSE GCD(b, a % b)

Rat(n, d) ==
    LET g == GCD(Abs(n), Abs(d))
        s == IF d < 0 THEN -1 ELSE 1
    IN  <<(s * n) \div g, (s * d) \div g>>

RInt(n) == <<n, 1>>

\* x + y; NaN when an operand is NaN
RAdd(x, y) ==
    IF x = NaN \/ y = NaN THEN NaN
    ELSE LET g == GCD(x[2], y[2])
         IN  Rat(x[1] * (y[2] \div g) + y[1] * (x[2] \div g), (x[2] \div g) * y[2])

RNeg(x) == <<-x[1], x[2]>>

RSub(x, y) == RAdd(x, RNeg(y))

\* x * y; NaN when an operand is NaN
RMul(x, y) ==
    LET g1 == GCD(Abs(x[1]), y[2])
        g2 == GCD(Abs(y[1]), x[2])
    IN  IF x = NaN \/ y = NaN THEN NaN
        ELSE IF x[1] = 0 \/ y[1] = 0 THEN <<0, 1>>
        ELSE <<(x[1] \div g1) * (y[1] \div g2), (x[2] \div g2) * (y[2] \div g1)>>

\* x / y for y # 0
RDiv(x, y) == RMul(x, IF y[1] < 0 THEN <<-y[2], -y[1]>> ELSE <<y[2], y[1]>>)

RLess(x, y) ==
    LET g == GCD(x[2], y[2])
    IN  x[1] * (y[2] \div g) < y[1] * (x[2] \div g)

RLeq(x, y) == ~RLess(y, x)

RAbs(x) == <<Abs(x[1]), x[2]>>

\* WGSL clamp(e, low, high) = min(max(e, low), high)
clamp(e, low, high) ==
    LET m == IF RLess(e, low) THEN low ELSE e
    IN  IF RLess(high, m) THEN high ELSE m

\* WGSL saturate(e) = clamp(e, 0.0, 1.0)
saturate(e) == clamp(e, <<0, 1>>, <<1, 1>>)

Vec3(x, y, z) == <<x, y, z>>

Splat(x) == <<x, x, x>>

V3Add(u, v) == [k \in 1..3 |-> RAdd(u[k], v[k])]

V3Mul(u, v) == [k \in 1..3 |-> RMul(u[k], v[k])]

V3Scale(u, x) == [k \in 1..3 |-> RMul(u[k], x)]

V3DivScalar(u, x) == [k \in 1..3 |-> RDiv(u[k], x)]

V3Saturate(u) == [k \in 1..3 |-> saturate(u[k])]

V3Leq(u, v) == \A k \in 1..3 : RLeq(u[k], v[k])

V3Sum(u) == RAdd(u[1], RAdd(u[2], u[3]))

Zero3 == Splat(<<0, 1>>)

One3 == Splat(<<1, 1>>)

----------------------------------------------------------------------------
(* power_heuristic, in IEEE single precision *)

\* Largest numerator of the densities the model evaluates power_heuristic on.
MaxPdfNum == 5

\* An f32 value >= 0.  [kind |-> "number", m |-> m, e |-> e] is m * 2^e with
\* 0 <= m < 2^24 and -149 <= e <= 104, where m >= 2^23 unless e = -149 (the
\* subnormal numbers and zero); the other kinds are +infinity and NaN.
F32Number(m, e) == [kind |-> "number", m |-> m, e |-> e]

F32Zero == F32Number(0, -149)

F32Inf == [kind |-> "inf", m |-> 0, e |-> 0]

F32NaN == [kind |-> "nan", m |-> 0, e |-> 0]

\* 2^k for 0 <= k <= 30
RECURSIVE F32Pow2(_)
F32Pow2(k) == IF k <= 0 THEN 1 ELSE 2 * F32Pow2(k - 1)

\* The f32 nearest to t * 2^e, ties to even, for 0 < t < 2^31; sticky says
\* that a non-zero amount below the last bit of t was dropped (t then has
\* more than 24 bits).  A result of 2^128 or more is +infinity.
F32Round(t, e, sticky) ==
    LET shift == Max(BitLen(t) - 24, -149 - e)
        kept == IF shift <= 0 THEN t * F32Pow2(-shift)
                ELSE IF shift >= 31 THEN 0
                ELSE t \div F32Pow2(shift)
        rest == IF shift <= 0 THEN 0
                ELSE IF shift >= 31 THEN t
                ELSE t % F32Pow2(shift)
        half == IF shift <= 0 THEN 1 ELSE F32Pow2(Min(shift, 31) - 1)
        up == /\ shift > 0
              /\ shift <= 31
              /\ \/ rest > half
                 \/ rest = half /\ (sticky \/ kept % 2 = 1)
        m == kept + (IF up THEN 1 ELSE 0)
    IN  IF m = TwoPow24
        THEN (IF e + shift + 1 > 104 THEN F32Inf
              ELSE F32Number(TwoPow24 \div 2, e + shift + 1))
        ELSE IF e + shift > 104 THEN F32Inf
        ELSE F32Number(m, e + shift)

\* n as an f32, for an integer 0 <= n < 2^24
F32FromInt(n) == IF n = 0 THEN F32Zero ELSE F32Round(n, 0, FALSE)

\* x > 0 with its significand shifted up to 24 bits (the exponent may then
\* lie below -149)
F32Normalize(x) ==
    LET k == 24 - BitLen(x.m)
    IN  [m |-> x.m * F32Pow2(k), e |-> x.e - k]

\* The product of two 24-bit significands, as the 30 leading bits of the
\* 48 and whether the 18 bits below them are non-zero
F32MulBits(p, q) ==
    LET ph == p \div 4096
        pl == p % 4096
        qh == q \div 4096
        ql == q % 4096
        cross == ph * ql + pl * qh
        low == pl * ql + (cross % 4096) * 4096
        high == ph * qh + cross \div 4096 + low \div TwoPow24
        lo == low % TwoPow24
    IN  [t |-> high * 64 + lo \div 262144, sticky |-> lo % 262144 # 0]

\* x * y in f32 for x, y >= 0
F32Mul(x, y) ==
    IF x.kind = "nan" \/ y.kind = "nan" THEN F32NaN
    ELSE IF x.kind = "inf" \/ y.kind = "inf"
    THEN (IF x = F32Zero \/ y = F32Zero THEN F32NaN ELSE F32Inf)
    ELSE IF x.m = 0 \/ y.m = 0 THEN F32Zero
    ELSE Bind(<<F32Normalize(x), F32Normalize(y)>>,
              LAMBDA n : Bind(F32MulBits(n[1].m, n[2].m),
                              LAMBDA b : F32Round(b.t, n[1].e + n[2].e + 18, b.sticky)))

\* x + y in f32 for x, y >= 0: the operand with the smaller exponent is
\* aligned to six bits below the other's last bit
F32AddOrdered(x, y) ==
    LET s == x.e - y.e - 6
        aligned == IF s <= 0 THEN y.m * F32Pow2(-s)
                   ELSE IF s >= 24 THEN 0
                   ELSE y.m \div F32Pow2(s)
        sticky == IF s <= 0 THEN FALSE
                  ELSE IF s >= 24 THEN y.m # 0
                  ELSE y.m % F32Pow2(s) # 0
    IN  F32Round(x.m * 64 + aligned, x.e - 6, sticky)

F32Add(x, y) ==
    IF x.kind = "nan" \/ y.kind = "nan" THEN F32NaN
    ELSE IF x.kind = "inf" \/ y.kind = "inf" THEN F32Inf
    ELSE IF x.m = 0 THEN y
    ELSE IF y.m = 0 THEN x
    ELSE IF x.e >= y.e THEN F32AddOrdered(x, y)
    ELSE F32AddOrdered(y, x)

\* Long division: k more bits of the quotient q of a division by d, with
\* remainder r < d
RECURSIVE F32DivBits(_, _, _, _)
F32DivBits(q, r, d, k) ==
    IF k = 0 THEN [t |-> q, sticky |-> r # 0]
    ELSE IF 2 * r >= d THEN F32DivBits(2 * q + 1, 2 * r - d, d, k - 1)
    ELSE F32DivBits(2 * q, 2 * r, d, k - 1)

\* x / y in f32 for x, y >= 0
F32Div(x, y) ==
    IF x.kind = "nan" \/ y.kind = "nan" THEN F32NaN
    ELSE IF x.kind = "inf" THEN (IF y.kind = "inf" THEN F32NaN ELSE F32Inf)
    ELSE IF y.kind = "inf" THEN F32Zero
    ELSE IF y.m = 0 THEN (IF x.m = 0 THEN F32NaN ELSE F32Inf)
    ELSE IF x.m = 0 THEN F32Zero
    ELSE Bind(<<F32Normalize(x), F32Normalize(y)>>,
              LAMBDA n : Bind(F32DivBits(n[1].m \div n[2].m, n[1].m % n[2].m,
                                         n[2].m, 26),
                              LAMBDA b : F32Round(b.t, n[1].e - n[2].e - 26, b.sticky)))

\* let a = pdf_a * pdf_a;
F32Square(x) == F32Mul(x, x)

\* power_heuristic with the second density left unsquared
power_heuristic_unsquared(pdf_a, pdf_b) ==
    Bind(<<F32Square(pdf_a), pdf_b>>,
         LAMBDA sq : F32Div(sq[1], F32Add(sq[1], sq[2])))

\* fn power_heuristic(pdf_a: f32, pdf_b: f32) -> f32, operation by operation
\* in f32
power_heuristic(pdf_a, pdf_b) ==
    Bind(<<F32Square(pdf_a), F32Square(pdf_b)>>,
         LAMBDA sq : F32Div(sq[1], F32Add(sq[1], sq[2])))

\* a^2 / (a^2 + b^2) in real arithmetic, for rationals a, b >= 0: the value
\* power_heuristic rounds.  The path of a ray is followed in real arithmetic
\* throughout, and takes its weights from here.
power_heuristic_real(pdf_a, pdf_b) ==
    LET a == RMul(pdf_a, pdf_a)
        b == RMul(pdf_b, pdf_b)
    IN  IF RAdd(a, b) = <<0, 1>> THEN NaN ELSE RDiv(a, RAdd(a, b))

\* 2^-100 (about 7.9e-31): the square underflows to 0
Tiny == F32Number(8388608, -123)

\* 2^100 (about 1.3e30): the square overflows to +infinity
Huge == F32Number(8388608, 77)

\* The densities of the model that are ordinary in size: the f32 nearest to
\* n, n/3 and n/1000 for n up to MaxPdfNum (zero included).
PdfRationals ==
    { F32Div(F32FromInt(n), F32FromInt(d)) : n \in 0..MaxPdfNum, d \in {1, 3, 1000} }

\* Densities at the limits of f32 and of its rounding:
\*   2^-75 and 1.5 * 2^-75, whose squares round to 0 and to the least
\*   subnormal 2^-149; 2^-74 (square 2^-148);
\*   2^63, 1.5 * 2^63 and 1.5e19, whose squares are finite while the sum of
\*   two of the larger ones is not; the largest f32 below 2^64; 2^64, whose
\*   square is +infinity;
\*   1 - 2^-24, 1 + 2^-23 and 0.70710671 (significands with low bits set).
PdfExtremes ==
    { Tiny, Huge,
      F32Number(8388608, -98), F32Number(12582912, -98), F32Number(8388608, -97),
      F32Number(8388608, 40), F32Number(12582912, 40), F32Number(13642421, 40),
      F32Number(16777215, 40), F32Number(8388608, 41),
      F32Number(16777215, -24), F32Number(8388609, -23), F32Number(11863283, -24) }

PdfValues == PdfRationals \cup PdfExtremes

MISInit ==
    /\ pdfA \in PdfValues
    /\ pdfB \in PdfValues
    /\ weightAB = <<>>
    /\ weightBA = <<>>
    /\ BVHIdle /\ PageIdle /\ PathIdle /\ MoreIdle

EvaluateAB ==
    /\ weightAB = <<>>
    /\ weightAB' = <<power_heuristic(pdfA, pdfB)>>
    /\ UNCHANGED <<pdfA, pdfB, weightBA, bvhVars, pageVars, pathVars, moreVars>>

EvaluateBA ==
    /\ weightBA = <<>>
    /\ weightBA' = <<power_heuristic(pdfB, pdfA)>>
    /\ UNCHANGED <<pdfA, pdfB, weightAB, bvhVars, pageVars, pathVars, moreVars>>

MISNext == EvaluateAB \/ EvaluateBA

SpecMIS == MISInit /\ [][MISNext]_vars

IsZero(x) == x = F32Zero

IsNumber(x) == x.kind = "number"

BothEvaluated == weightAB # <<>> /\ weightBA # <<>>

\* A weight w <= 1 in units of 2^-26, rounded down and rounded up
F32UnitsBelow(w) ==
    IF w.e >= -26 THEN w.m * F32Pow2(w.e + 26)
    ELSE IF w.e <= -50 THEN 0
    ELSE w.m \div F32Pow2(-26 - w.e)

F32UnitsAbove(w) ==
    IF w.e >= -26 THEN w.m * F32Pow2(w.e + 26)
    ELSE IF w.m = 0 THEN 0
    ELSE IF w.e <= -50 THEN 1
    ELSE (w.m + F32Pow2(-26 - w.e) - 1) \div F32Pow2(-26 - w.e)

\* 1 in units of 2^-26
OneInUnits == 4 * TwoPow24

\* The two weights are numbers and their sum is 1
WeightsSumIsOne ==
    /\ IsNumber(weightAB[1])
    /\ IsNumber(weightBA[1])
    /\ F32UnitsBelow(weightAB[1]) + F32UnitsBelow(weightBA[1]) = OneInUnits
    /\ F32UnitsAbove(weightAB[1]) + F32UnitsAbove(weightBA[1]) = OneInUnits

\* The two weights are numbers in [0, 1] and their sum is within 2^-23 (8
\* units) of 1
WeightsSumNearOne ==
    /\ IsNumber(weightAB[1])
    /\ IsNumber(weightBA[1])
    /\ F32UnitsAbove(weightAB[1]) <= OneInUnits
    /\ F32UnitsAbove(weightBA[1]) <= OneInUnits
    /\ F32UnitsBelow(weightAB[1]) + F32UnitsBelow(weightBA[1]) >= OneInUnits - 8
    /\ F32UnitsAbove(weightAB[1]) + F32UnitsAbove(weightBA[1]) <= OneInUnits + 8

\* a*a + b*b as power_heuristic computes it
SquaresSum(a, b) == F32Add(F32Square(a), F32Square(b))

\* C7 as the specification states it: for any two densities a, b >= 0 that
\* are not both zero, power_heuristic(a, b) + power_heuristic(b, a) = 1.
\* The code computes in f32: it answers NaN (0/0) when both squares round to
\* zero, NaN (inf/inf) when the first square overflows, 0 for both weights
\* when only the sum of the squares overflows, and otherwise two rounded
\* quotients.
MISWeightsSumToOne ==
    (BothEvaluated /\ ~(IsZero(pdfA) /\ IsZero(pdfB))) => WeightsSumIsOne

\* C7, amended: for any two f32 densities a, b >= 0 for which a*a + b*b,
\* computed in f32, is neither 0 nor infinite, the two weights are numbers
\* in [0, 1] and power_heuristic(a, b) + power_heuristic(b, a) differs from
\* 1 by at most 2^-23.
MISWeightsSumToOneInRange ==
    (BothEvaluated /\ IsNumber(SquaresSum(pdfA, pdfB))
        /\ ~IsZero(SquaresSum(pdfA, pdfB)))
        => WeightsSumNearOne

\* Outside that range: when a*a + b*b is 0 both weights are NaN; when it is
\* infinite, a weight is NaN if its own square is infinite and 0 otherwise.
MISWeightsOutOfRange ==
    BothEvaluated
        => /\ IsZero(SquaresSum(pdfA, pdfB))
                => weightAB[1] = F32NaN /\ weightBA[1] = F32NaN
           /\ SquaresSum(pdfA, pdfB) = F32Inf
                => /\ weightAB[1] = (IF F32Square(pdfA) = F32Inf THEN F32NaN ELSE F32Zero)
                   /\ weightBA[1] = (IF F32Square(pdfB) = F32Inf THEN F32NaN ELSE F32Zero)

\* Both weights evaluated for two different positive densities: the f32
\* nearest to 1/1000, the shader's light_pdf_estimate, and to 1/3; the
\* weights are rounded quotients, 8.99992e-6 and 0.99999100, and their sum
\* is below 1 by less than 2^-26.
MISWeightsWitness ==
    /\ BothEvaluated
    /\ pdfA = F32Number(8589935, -33)
    /\ pdfB = F32Number(11184811, -25)
    /\ weightAB[1] = F32Number(9895516, -40)
    /\ weightBA[1] = F32Number(16777065, -24)
    /\ ~WeightsSumIsOne

\* Both densities 1.5e19: each square is finite (2.25e38), their sum is
\* +infinity, and both weights are 0.
MISSumOverflowWitness ==
    /\ BothEvaluated
    /\ pdfA = F32Number(13642421, 40)
    /\ pdfB = pdfA
    /\ F32Square(pdfA) = F32Number(11093357, 104)
    /\ weightAB[1] = F32Zero
    /\ weightBA[1] = F32Zero

\* The densities 2^-100 and 0: both squares are 0 and both weights NaN.
MISUnderflowWitness ==
    /\ BothEvaluated
    /\ pdfA = Tiny
    /\ pdfB = F32Zero
    /\ weightAB[1] = F32NaN
    /\ weightBA[1] = F32NaN


----------------------------------------------------------------------------
(* ray_trace: one path of the compute kernel

   The geometry of a path is left out: what ray_all hits, what
   sample_light_triangles returns, the cosines and the random draws are the
   inputs of each iteration of the loop.  A material is the part of HitInfo
   the radiance depends on. *)

maxBounceCount == 6

sky_color == Splat(<<2, 5>>)

light_pdf_estimate == <<1, 1000>>

\* 0.2126 R + 0.7152 G + 0.0722 B
luminance(c) ==
    RAdd(RMul(<<1063, 5000>>, c[1]),
         RAdd(RMul(<<447, 625>>, c[2]), RMul(<<361, 5000>>, c[3])))

White == [color |-> One3, emission |-> Zero3, specularProbability |-> <<0, 1>>]

Grey == [color |-> Splat(<<1, 2>>), emission |-> Zero3, specularProbability |-> <<0, 1>>]

BlueMirror == [color |-> Vec3(<<0, 1>>, <<0, 1>>, <<1, 1>>), emission |-> Zero3,
               specularProbability |-> <<1, 1>>]

Soot == [color |-> Splat(<<1, 1000>>), emission |-> Zero3,
         specularProbability |-> <<0, 1>>]

Lamp == [color |-> One3, emission |-> Splat(<<2, 1>>), specularProbability |-> <<0, 1>>]

\* The scenes a path is traced in: the empty scene, a scene without
\* emission whose colours are at most 1, and a scene with a light.
PathScenes == { {}, {White, Grey, BlueMirror, Soot}, {BlueMirror, Lamp} }

NonEmissive(scene) == \A m \in scene : m.emission = Zero3

\* LightSample, without its direction and distance; pdf = 0 is "no sample".
NoLightSample == [pdf |-> <<0, 1>>, emission |-> Zero3]

\* What sample_light_triangles can return in a scene: nothing when no
\* triangle emits or the light faces away, else a light's emission with a
\* positive pdf.
LightSamples(scene) ==
    {NoLightSample} \cup
    { [pdf |-> <<1, 2>>, emission |-> m.emission] : m \in { x \in scene : x.emission # Zero3 } }

\* The values of brdf_pdf (cos_theta / PI, or 0 for cos_theta <= 0) and of
\* rand_f the model draws.
BrdfPdfValues == { <<0, 1>>, <<1, 1000>> }

RandValues == { <<0, 1>>, <<1, 2>>, <<1, 1>> }

\* The inputs of an iteration that hits a surface of the scene: the surface,
\* the light sample with the cosine (over PI) of its direction and the
\* outcome of its shadow ray, the brdf_pdf of the incoming direction, and the
\* two random draws.  Without a light sample its cosine and shadow ray are
\* not read, so one value stands for them.
HitInputs(scene) ==
    { [hit |-> <<m>>, triangle_sample |-> s, cos_pi |-> c, unoccluded |-> u,
       brdf_pdf_in |-> b, rand_roulette |-> rr, rand_specular |-> rs] :
          m \in scene, s \in LightSamples(scene), c \in {<<-1, 2>>, <<1, 2>>},
          u \in BOOLEAN, b \in BrdfPdfValues, rr \in RandValues,
          rs \in {<<0, 1>>, <<1, 2>>} }
    \ { in \in [hit : {<<m>> : m \in scene}, triangle_sample : {NoLightSample},
                cos_pi : {<<-1, 2>>, <<1, 2>>}, unoccluded : BOOLEAN,
                brdf_pdf_in : BrdfPdfValues, rand_roulette : RandValues,
                rand_specular : {<<0, 1>>, <<1, 2>>}] :
            ~(in.cos_pi = <<1, 2>> /\ in.unoccluded) }

\* The direct-lighting block of an iteration.  cos_pi is cos_theta / PI for
\* the sampled direction (negative when the light is behind the surface),
\* unoccluded the outcome of the shadow ray.
direct_light(light, color, triangle_sample, cos_pi, unoccluded) ==
    IF RLess(<<0, 1>>, triangle_sample.pdf) /\ RLess(<<0, 1>>, cos_pi) /\ unoccluded
    THEN LET brdf_pdf_val == cos_pi
             mis_weight == power_heuristic_real(triangle_sample.pdf, brdf_pdf_val)
             brdf == cos_pi
         IN  V3Add(light,
                   V3DivScalar(V3Scale(V3Mul(V3Scale(triangle_sample.emission, brdf),
                                             color), mis_weight),
                               triangle_sample.pdf))
    ELSE light

\* The emission block of an iteration.
emission_light(light, color, hit_info, i, is_specular_bounce, brdf_pdf_val) ==
    LET is_primary_ray == (i = 0)
        is_emissive == RLess(<<1, 100>>, V3Sum(hit_info.emission))
    IN  IF (is_primary_ray /\ is_emissive) \/ is_specular_bounce
        THEN LET mis_weight == power_heuristic_real(brdf_pdf_val, light_pdf_estimate)
             IN  V3Add(light, V3Scale(V3Mul(hit_info.emission, color), mis_weight))
        ELSE light

\* color += hit_info.color in place of color *= hit_info.color
update_color_added(color, hit_color) == V3Add(color, hit_color)

\* color *= hit_info.color
update_color(color, hit_color) == V3Mul(color, hit_color)

\* p of the Russian-roulette test
roulette_p(color) == clamp(luminance(color), <<1, 20>>, <<19, 20>>)

MissInput == [hit |-> <<>>]

\* if (i >= 2u) in place of if (i >= 3u)
roulette_due_early(i) == i >= 2

\* The condition of the Russian-roulette block
roulette_due(i) == i >= 3

\* The steps of an iteration with loop index i, in the order of the code
StepsOf(i, names) == [k \in 1..Len(names) |-> [step |-> names[k], i |-> i]]

\* One iteration of the loop of ray_trace on the locals st with the inputs
\* in; break tells whether the iteration left the loop.
ray_trace_iteration(st, in) ==
    IF in.hit = <<>>
    THEN [locals |-> [st EXCEPT !.light = V3Add(st.light, V3Mul(sky_color, st.color))],
          break |-> TRUE,
          steps |-> StepsOf(st.i, <<"intersect", "miss">>)]
    ELSE LET hit_info == in.hit[1]
             light1 == direct_light(st.light, st.color, in.triangle_sample,
                                    in.cos_pi, in.unoccluded)
             light2 == emission_light(light1, st.color, hit_info, st.i,
                                      st.is_specular_bounce, in.brdf_pdf_in)
             color1 == update_color(st.color, hit_info.color)
             p == roulette_p(color1)
             lit == [st EXCEPT !.light = light2, !.color = color1]
             shaded == <<"intersect", "direct-lighting", "emission", "throughput">>
         IN  IF RLess(V3Sum(color1), <<1, 100>>)
             THEN [locals |-> lit, break |-> TRUE,
                   steps |-> StepsOf(st.i, shaded \o <<"extinction">>)]
             ELSE IF roulette_due(st.i) /\ RLess(p, in.rand_roulette)
             THEN [locals |-> lit, break |-> TRUE,
                   steps |-> StepsOf(st.i, shaded \o <<"roulette", "kill">>)]
             ELSE [locals |-> [lit EXCEPT
                                 !.color = IF roulette_due(st.i) THEN V3DivScalar(color1, p)
                                           ELSE color1,
                                 !.is_specular_bounce =
                                     RLeq(in.rand_specular, hit_info.specularProbability),
                                 !.i = st.i + 1],
                   break |-> FALSE,
                   steps |-> StepsOf(st.i, shaded
                                 \o (IF roulette_due(st.i) THEN <<"roulette">> ELSE <<>>)
                                 \o <<"scatter">>)]

InitialLocals ==
    [color |-> One3, light |-> Zero3, is_specular_bounce |-> FALSE, i |-> 0]

RECURSIVE ray_trace_loop(_, _)
ray_trace_loop(st, inputs) ==
    IF st.i >= maxBounceCount \/ inputs = <<>> THEN st.light
    ELSE LET r == ray_trace_iteration(st, Head(inputs))
         IN  IF r.break THEN r.locals.light ELSE ray_trace_loop(r.locals, Tail(inputs))

\* ray_trace(ray, maxBounceCount, state), the path given by its inputs
ray_trace(inputs) == ray_trace_loop(InitialLocals, inputs)

PathInit ==
    /\ pathScene \in PathScenes
    /\ path = InitialLocals
    /\ pathPc = "loop"
    /\ rrProduct = <<1, 1>>
    /\ pathTrace = <<>>
    /\ BVHIdle /\ PageIdle /\ MISIdle /\ MoreIdle

\* An iteration in which ray_all hits nothing.
TraceMiss ==
    /\ pathPc = "loop"
    /\ path.i < maxBounceCount
    /\ path' = ray_trace_iteration(path, MissInput).locals
    /\ pathTrace' = pathTrace \o ray_trace_iteration(path, MissInput).steps
    /\ pathPc' = "returned"
    /\ UNCHANGED <<pathScene, rrProduct, bvhVars, pageVars, misVars, moreVars>>

\* An iteration in which ray_all hits a surface of the scene.
TraceHit ==
    /\ pathPc = "loop"
    /\ path.i < maxBounceCount
    /\ \E in \in HitInputs(pathScene) :
          LET r == ray_trace_iteration(path, in)
          IN  /\ path' = r.locals
              /\ pathPc' = IF r.break THEN "returned" ELSE "loop"
              /\ pathTrace' = pathTrace \o r.steps
              /\ rrProduct' = IF ~r.break /\ roulette_due(path.i)
                              THEN RMul(rrProduct,
                                        roulette_p(update_color(path.color,
                                                                in.hit[1].color)))
                              ELSE rrProduct
    /\ UNCHANGED <<pathScene, bvhVars, pageVars, misVars, moreVars>>

\* The loop ends after maxBounceCount iterations.
TraceLoopEnd ==
    /\ pathPc = "loop"
    /\ path.i >= maxBounceCount
    /\ pathPc' = "returned"
    /\ pathTrace' = Append(pathTrace, [step |-> "exhausted", i |-> path.i])
    /\ UNCHANGED <<pathScene, path, rrProduct, bvhVars, pageVars, misVars, moreVars>>

PathNext == TraceMiss \/ TraceHit \/ TraceLoopEnd

SpecPath == PathInit /\ [][PathNext]_vars

\* C6 as the specification states it: in a scene without emission whose
\* colours are at most 1, every path returns L <= sky in every component.
EnergyConserved ==
    (pathPc = "returned" /\ NonEmissive(pathScene)) => V3Leq(path.light, sky_color)

\* C6, amended: in such a scene the radiance of a path is at most sky
\* divided by the probabilities p of the Russian-roulette tests it survived:
\* L * (product of p) <= sky in every component.  So L <= sky for a path that
\* survived no test, and L <= sky / 0.05^2 always (a miss follows at most two
\* survived tests).
EnergyConservedUpToRoulette ==
    (pathPc \in {"loop", "returned"} /\ NonEmissive(pathScene))
        => /\ V3Leq(V3Scale(path.color, rrProduct), One3)
           /\ V3Leq(V3Scale(path.light, rrProduct), sky_color)
           /\ (rrProduct = <<1, 1>> => V3Leq(path.light, sky_color))
           /\ V3Leq(path.light, V3Scale(sky_color, <<400, 1>>))

\* A path in the scene without emission that hit the blue mirror, survived
\* the test of iteration 3 with p = 0.0722 and then missed: its blue
\* component is 0.4 / 0.0722.
EnergyWitness ==
    /\ pathPc = "returned"
    /\ pathScene # {}
    /\ NonEmissive(pathScene)
    /\ path.i = 4
    /\ rrProduct = <<361, 5000>>
    /\ path.light = Vec3(<<0, 1>>, <<0, 1>>, <<2000, 361>>)

----------------------------------------------------------------------------
(* ray_bvh_triangles: the traversal of the flat BVH in the compute kernel

   A ray is given by what it intersects: boxes is the set of node indices
   whose bounding box it meets (the outcome of ray_aabb_intersect on that
   node), hits[k] the t of ray_triangle_intersect on triangle k (-1 for no
   intersection). *)

stack_size == 64

\* The buffers createBuffersAndBindGroups binds as bvh_nodes and
\* bvh_triangle_indices: the serialized arrays, or a zero-filled buffer of
\* the minimum size (64 and 4 bytes) when an array is empty.  nodes holds
\* f32 values, triangleIndices u32 values.
CreateBVHBuffers(bvhData) ==
    [nodes |-> IF Len(bvhData.nodes) > 0 THEN bvhData.nodes
               ELSE [k \in 1..(64 \div 4) |-> 0],
     triangleIndices |-> IF Len(bvhData.triangleIndices) > 0
                         THEN bvhData.triangleIndices
                         ELSE [k \in 1..(4 \div 4) |-> 0]]

\* arrayLength(&bvh_nodes): the number of whole BVHNode structures (48 bytes
\* each) the buffer holds.
arrayLengthNodes(bufs) == (Len(bufs.nodes) * 4) \div 48

\* u32(e) of a WGSL f32 holding an integer: negative values clamp to 0.
U32(e) == IF e < 0 THEN 0 ELSE e

\* The loop over the triangles of a leaf that keeps every hit in front of
\* the ray, whatever the hit held so far.
RECURSIVE leaf_loop_latest(_, _, _, _, _, _)
leaf_loop_latest(closest, bufs, r, triangle_start, i, max_triangles) ==
    IF i >= max_triangles THEN closest
    ELSE LET triangle_index ==
                 IF triangle_start + i + 1 \in DOMAIN bufs.triangleIndices
                 THEN bufs.triangleIndices[triangle_start + i + 1] ELSE 0
             t == IF triangle_index \in DOMAIN r.hits THEN r.hits[triangle_index]
                  ELSE -1
             next == IF t > 0
                     THEN <<[t |-> t, triangle |-> triangle_index]>>
                     ELSE closest
         IN  leaf_loop_latest(next, bufs, r, triangle_start, i + 1, max_triangles)

\* The loop over the triangles of a leaf, from its i-th triangle on.  A read
\* past the end of a buffer yields a zero element.
RECURSIVE leaf_loop(_, _, _, _, _, _)
leaf_loop(closest, bufs, r, triangle_start, i, max_triangles) ==
    IF i >= max_triangles THEN closest
    ELSE LET triangle_index ==
                 IF triangle_start + i + 1 \in DOMAIN bufs.triangleIndices
                 THEN bufs.triangleIndices[triangle_start + i + 1] ELSE 0
             t == IF triangle_index \in DOMAIN r.hits THEN r.hits[triangle_index]
                  ELSE -1
             next == IF t > 0 /\ (closest = <<>> \/ t < closest[1].t)
                     THEN <<[t |-> t, triangle |-> triangle_index]>>
                     ELSE closest
         IN  leaf_loop(next, bufs, r, triangle_start, i + 1, max_triangles)

\* One iteration of the while loop: pop a node index and process the node.
\* st holds stack (indexed from 0), stack_ptr, closest_hit and visited, the
\* set of indices read from bvh_nodes so far.
bvh_iteration(st, bufs, r) ==
    LET ptr == st.stack_ptr - 1
        node_index == st.stack[ptr]
        popped == [st EXCEPT !.stack_ptr = ptr]
    IN  IF node_index >= arrayLengthNodes(bufs) THEN popped
        ELSE LET node == FlatNodeAt(bufs, node_index)
                 read == [popped EXCEPT !.visited = @ \cup {node_index}]
             IN  IF node_index \notin r.boxes THEN read
                 ELSE IF 2 * node.is_leaf > 1
                 THEN LET triangle_start == U32(node.left_or_triangle_start)
                          triangle_count == U32(node.right_or_triangle_count)
                          len == Len(bufs.triangleIndices)
                          \* u32 subtraction wraps around below zero
                          max_triangles ==
                              IF triangle_start > len THEN triangle_count
                              ELSE Min(triangle_count, len - triangle_start)
                      IN  [read EXCEPT !.closest_hit =
                              leaf_loop(@, bufs, r, triangle_start, 0, max_triangles)]
                 ELSE LET left_child == U32(node.left_or_triangle_start)
                          right_child == U32(node.right_or_triangle_count)
                          pushedRight ==
                              IF ptr < stack_size - 1
                              THEN [read EXCEPT !.stack[ptr] = right_child,
                                                !.stack_ptr = ptr + 1]
                              ELSE read
                      IN  IF pushedRight.stack_ptr < stack_size - 1
                          THEN [pushedRight EXCEPT
                                  !.stack[pushedRight.stack_ptr] = left_child,
                                  !.stack_ptr = pushedRight.stack_ptr + 1]
                          ELSE pushedRight

\* The locals on entry to the while loop, or past it (stack_ptr = 0) when
\* bvh_nodes holds no node.
ray_bvh_triangles_entry(bufs) ==
    [stack |-> [k \in 0..(stack_size - 1) |-> 0],
     stack_ptr |-> IF arrayLengthNodes(bufs) = 0 THEN 0 ELSE 1,
     closest_hit |-> <<>>,
     visited |-> {}]

\* Up to n iterations of the while loop of ray_bvh_triangles from the locals
\* st on.
RECURSIVE bvh_iterations(_, _, _, _)
bvh_iterations(st, bufs, r, n) ==
    IF n = 0 \/ st.stack_ptr = 0 THEN st
    ELSE Bind(bvh_iteration(st, bufs, r),
              LAMBDA next : bvh_iterations(next, bufs, r, n - 1))

\* The while loop of ray_bvh_triangles from the locals st on: the locals with
\* which it exits (stack_ptr = 0) or, when it does not exit, the locals that
\* further iterations leave as they are.
RECURSIVE bvh_loop(_, _, _)
bvh_loop(st, bufs, r) ==
    IF st.stack_ptr = 0 THEN st
    ELSE Bind(bvh_iterations(st, bufs, r, 8),
              LAMBDA next : IF next = st THEN st ELSE bvh_loop(next, bufs, r))

----------------------------------------------------------------------------
(* The page: UIControls, main(), WebGPURenderer, the accumulator shader *)

\* A string is the sequence of its characters.
DigitChars == <<"0", "1", "2", "3", "4", "5", "6", "7", "8", "9">>

IsDigit(c) == \E k \in 1..10 : DigitChars[k] = c

DigitValue(c) == (CHOOSE k \in 1..10 : DigitChars[k] = c) - 1

RECURSIVE SkipSpaces(_)
SkipSpaces(str) ==
    IF str # <<>> /\ Head(str) = " " THEN SkipSpaces(Tail(str)) ELSE str

\* The value of the longest prefix of decimal digits of str, continuing acc.
RECURSIVE DigitsValue(_, _)
DigitsValue(str, acc) ==
    IF str # <<>> /\ IsDigit(Head(str))
    THEN DigitsValue(Tail(str), 10 * acc + DigitValue(Head(str)))
    ELSE acc

\* JavaScript parseInt(string) for a string without a radix prefix: white
\* space, an optional sign, then the longest run of decimal digits; NaN when
\* there is no digit there.
parseInt(string) ==
    LET s == SkipSpaces(string)
        negative == s # <<>> /\ Head(s) = "-"
        signed == s # <<>> /\ Head(s) \in {"-", "+"}
        rest == IF signed THEN Tail(s) ELSE s
    IN  IF rest = <<>> \/ ~IsDigit(Head(rest)) THEN NaN
        ELSE RInt((IF negative THEN -1 ELSE 1) * DigitsValue(rest, 0))

\* JavaScript Math.min and Math.max of two numbers
MathMin(x, y) == IF x = NaN \/ y = NaN THEN NaN ELSE IF RLess(y, x) THEN y ELSE x

MathMax(x, y) == IF x = NaN \/ y = NaN THEN NaN ELSE IF RLess(x, y) THEN y ELSE x

\* JavaScript x || y for a number x: y when x is NaN or 0
NumberOr(x, y) == IF x = NaN \/ x = <<0, 1>> THEN y ELSE x

\* UIControls.loadValue: localStorage.getItem(key) || defaultValue; item is
\* <<>> (null) or <<string>>
loadValue(item, defaultValue) ==
    IF item = <<>> THEN defaultValue
    ELSE IF item[1] = <<>> THEN defaultValue
    ELSE item[1]

\* The values the 'Samples per pixel' number input can hold: the empty string
\* or a valid floating-point number.
ControlValues ==
    { <<>>, <<"0">>, <<"4">>, <<"1", "7">>, <<"-", "3">>, <<"4", ".", "5">>,
      <<".", "5">> }

\* The value setSamplesPerPixel assigns to this.samplesPerPixel
clampSamples(samples) == MathMax(RInt(1), MathMin(RInt(16), samples))

\* updateUniformsBuffer: the frameIndex and samplesPerPixel slots of the
\* uniform buffer (the camera, the resolution and the debug flag are left out)
updateUniformsBuffer(fi, spp) == <<[frameIndex |-> fi, samplesPerPixel |-> spp]>>

NaN3 == Splat(NaN)

\* The nearest integer to n/d (n >= 0, d > 0) below or above it.
FloorDiv(n, d) == n \div d

CeilDiv(n, d) == (n + d - 1) \div d

\* n/d scaled by a power of two 2^k so that 1024 <= n/d * 2^k < 2048, for
\* k up to 24 (below that the binary16 value is subnormal).
RECURSIVE F16Scale(_, _, _)
F16Scale(n, d, k) ==
    IF n < 1024 * d /\ k < 24 THEN F16Scale(2 * n, d, k + 1)
    ELSE IF n >= 2048 * d THEN F16Scale(n, 2 * d, k - 1)
    ELSE [n |-> n, d |-> d, k |-> k]

RECURSIVE TwoPow(_)
TwoPow(k) == IF k = 0 THEN 1 ELSE 2 * TwoPow(k - 1)

\* A component written to the rgba16float texture: x >= 0 below the largest
\* binary16 value, rounded to 11 significant bits, downwards or upwards (WGSL
\* leaves the direction to the implementation).
F16(x, up) ==
    IF x = NaN \/ x[1] = 0 THEN x
    ELSE LET s == F16Scale(x[1], x[2], 0)
             m == IF up THEN CeilDiv(s.n, s.d) ELSE FloorDiv(s.n, s.d)
         IN  IF s.k >= 0 THEN Rat(m, TwoPow(s.k)) ELSE Rat(m * TwoPow(-s.k), 1)

\* textureStore(intermediate_texture, ...) of a colour
storeIntermediate(color, up) == [k \in 1..3 |-> F16(color[k], up)]

\* The compute kernel's main for one pixel, given the radiance ray_trace
\* returns for each of its samples: the mean over u32(samplesPerPixel)
\* samples, divided by f32(samplesPerPixel); NaN when samplesPerPixel is NaN.
kernel_main(u, radiance) ==
    IF u.samplesPerPixel = NaN THEN NaN3
    ELSE V3DivScalar(V3Scale(radiance, u.samplesPerPixel), u.samplesPerPixel)

\* The accumulator's fs_main for one pixel whose colours are numbers: the
\* value it stores in the accumulation textures.
fs_main(u, currentFrameColor, stored) ==
    LET storedColor == IF u.frameIndex > 0 THEN stored ELSE Zero3
        weight == RDiv(RInt(1), RInt(u.frameIndex + 1))
    IN  V3Saturate(V3Add(V3Scale(storedColor, RSub(RInt(1), weight)),
                         V3Scale(currentFrameColor, weight)))

\* What fs_main can store: with a NaN among its inputs the blend is NaN and
\* saturate (min and max of a NaN) is any of 0, 1 and NaN.
AccumulatorOutcomes(u, currentFrameColor, stored) ==
    IF (u.frameIndex > 0 /\ \E k \in 1..3 : stored[k] = NaN)
        \/ \E k \in 1..3 : currentFrameColor[k] = NaN
    THEN {NaN3, Zero3, One3}
    ELSE {fs_main(u, currentFrameColor, stored)}

\* The colours the kernel can emit for the pixel in a scene with geometry
\* (the mean radiance of its paths), one of them above 1.
KernelColours ==
    { sky_color, Vec3(<<1, 1>>, <<1, 2>>, <<0, 1>>), Vec3(<<2, 1>>, <<1, 1>>, <<1, 4>>) }

\* The BVH buffers of a scene without triangles
EmptySceneBuffers == CreateBVHBuffers(serializeBVH(buildBVH(<<>>)))

\* The rays of a pixel in the empty scene: through the box of node 0 of the
\* buffer or past it; there is no triangle to intersect.
EmptySceneRays == { [boxes |-> b, hits |-> <<>>] : b \in {{}, {0}} }

\* ray_all in the empty scene (no sphere, then the triangles of the BVH), as
\* the input of the path's first iteration.
ray_all_empty(closest_hit) ==
    IF closest_hit = <<>> THEN MissInput ELSE [hit |-> closest_hit]

\* Largest number of other calls of main() inside Create at one time.
MaxOtherMains == 1

\* The values typed into the 'Samples per pixel' control of another call of
\* main()
OtherControlValues == { <<"4">>, <<".", "5">> }

\* No other call of main() is inside Create or has controls in the settings
NoOtherMains == [creating |-> 0, shown |-> 0]

PageInit ==
    /\ rendererPc = "unloaded"
    /\ debugPipeline = FALSE
    /\ controlsShown = FALSE
    /\ otherMains = NoOtherMains
    /\ sceneKind = "none"
    /\ localStorage = <<>>
    /\ frameIndex = 0
    /\ samplesPerPixel = RInt(1)
    /\ uniforms = <<>>
    /\ sinceReset = <<>>
    /\ gpuQueue = <<>>
    /\ ray = <<>>
    /\ traversal = <<>>
    /\ intermediate = Zero3
    /\ accumulation = Zero3
    /\ framesRendered = 0
    /\ emitted = {}
    /\ lastEstimate = <<>>
    /\ nodesVisited = {}
    /\ lastFrame = <<>>
    /\ BVHIdle /\ PathIdle /\ MISIdle /\ MoreIdle

\* main() on the load event, up to its await of WebGPURenderer.Create
\* (lines 816-853): the settings are cleared, the 'Scene' select is added and
\* Create starts on a new renderer (frameIndex = 0, samplesPerPixel = 1).
Main ==
    /\ rendererPc = "unloaded"
    /\ rendererPc' = "creating"
    /\ UNCHANGED <<callVars, sceneKind, localStorage, hostVars, deviceVars,
                   frameHistory, pageRest>>

\* WebGPURenderer.Create throws inside its try block and its catch, lines
\* 119-122, shows the error and returns null; main() returns and no further
\* control is added.  Before createBuffersAndBindGroups: no WebGPU, no
\* adapter, no context, the pipelines or the scene fail.  After the uniforms
\* were written, inside createDebugPipeline() or after it: a shader file is
\* not fetched or the pipeline is not created (debugPipeline stays unset),
\* or createDebugPipeline() has assigned debugPipeline (line 258) and the
\* rest of it or createDebugBuffers() throws.
RendererCreateFails ==
    /\ rendererPc \in {"creating", "buffers"}
    /\ rendererPc' = "failed"
    /\ \E assigned \in BOOLEAN :
          /\ assigned => rendererPc = "buffers"
          /\ debugPipeline' = assigned
    /\ UNCHANGED <<controlsShown, otherMains, sceneKind, localStorage, hostVars,
                   deviceVars, frameHistory, pageRest>>

\* WebGPURenderer.Create gets through its awaits on a scene of the given
\* kind and calls createBuffersAndBindGroups, lines 356-617: the textures
\* are zero-filled, the uniforms are written (frameIndex = 0,
\* samplesPerPixel = 1) and the bind groups are created.  When a
\* createBindGroup call throws, the function shows the error and returns,
\* and Create returns the renderer in the same turn, without a debug
\* pipeline; otherwise it awaits createDebugPipeline().
RendererCreateBuffers ==
    /\ rendererPc = "creating"
    /\ \E kind \in {"empty", "geometry"} : sceneKind' = kind
    /\ frameIndex' = 0
    /\ samplesPerPixel' = RInt(1)
    /\ uniforms' = updateUniformsBuffer(0, RInt(1))
    /\ intermediate' = Zero3
    /\ accumulation' = Zero3
    /\ \E threw \in BOOLEAN : rendererPc' = IF threw THEN "created" ELSE "buffers"
    /\ UNCHANGED <<callVars, localStorage, sinceReset, gpuQueue, ray, traversal,
                   frameHistory, pageRest>>

\* The awaited createDebugPipeline() is done (lines 618-619):
\* createDebugBuffers() writes the wireframe of bvh.buildWireframeVertices()
\* and WebGPURenderer.Create returns the renderer.
RendererCreate ==
    /\ rendererPc = "buffers"
    /\ debugPipeline' = TRUE
    /\ rendererPc' = "created"
    /\ UNCHANGED <<controlsShown, otherMains, sceneKind, localStorage, hostVars,
                   deviceVars, frameHistory, pageRest>>

\* The rest of main() once Create has returned the renderer (lines 858-923),
\* in the turn of the event loop in which Create returns: the 'Samples per
\* pixel' input is added with the stored value,
\* setSamplesPerPixel(parseInt(value)) runs, the debug and depth controls
\* are added, and updateDebugBuffers throws when there is no debug pipeline;
\* main() then rejects before the 'Reset accumulation' button and the
\* render loop.  Otherwise the button is added and the render loop starts.
MainControls ==
    /\ rendererPc = "created"
    /\ LET value == loadValue(localStorage, <<"1">>)
           spp == clampSamples(parseInt(value))
       IN  /\ samplesPerPixel' = spp
           /\ uniforms' = updateUniformsBuffer(frameIndex, spp)
    /\ controlsShown' = TRUE
    /\ rendererPc' = IF debugPipeline THEN "running" ELSE "rejected"
    /\ UNCHANGED <<debugPipeline, otherMains, sceneKind, localStorage, frameIndex,
                   sinceReset, deviceVars, frameHistory, pageRest>>

\* An input event of the 'Samples per pixel' control (lines 860-868): the
\* value is stored, then the handler calls
\* setSamplesPerPixel(parseInt(value) || 1), which writes the uniforms.  The
\* frames submitted before read the uniforms written before their submit.
SamplesInput ==
    /\ rendererPc \in {"running", "rejected"}
    /\ controlsShown
    /\ \E value \in ControlValues :
          /\ localStorage' = <<value>>
          /\ LET samples == NumberOr(parseInt(value), RInt(1))
                 spp == clampSamples(samples)
             IN  /\ samplesPerPixel' = spp
                 /\ uniforms' = updateUniformsBuffer(frameIndex, spp)
    /\ UNCHANGED <<rendererPc, callVars, sceneKind, frameIndex, sinceReset,
                   deviceVars, frameHistory, pageRest>>

\* The 'Reset accumulation' button: resetAccumulation(), lines 769-772.
ResetAccumulation ==
    /\ rendererPc = "running"
    /\ controlsShown
    /\ frameIndex' = 0
    /\ uniforms' = updateUniformsBuffer(0, samplesPerPixel)
    /\ sinceReset' = <<0>>
    /\ UNCHANGED <<rendererPc, callVars, sceneKind, localStorage, samplesPerPixel,
                   deviceVars, frameHistory, pageRest>>

\* render() of the render loop, lines 675-753: frameIndex++,
\* updateUniformsBuffer, the passes are encoded and submitted, and render()
\* returns.  The frame waits in the queue with the uniforms its passes will
\* read, those written last before the submit.
RenderSubmits ==
    /\ rendererPc = "running"
    /\ framesRendered + Len(gpuQueue) < MaxFrames
    /\ frameIndex' = frameIndex + 1
    /\ uniforms' = updateUniformsBuffer(frameIndex + 1, samplesPerPixel)
    /\ sinceReset' = IF sinceReset = <<>> THEN <<>> ELSE <<sinceReset[1] + 1>>
    /\ gpuQueue' = Append(gpuQueue, [uniforms |-> uniforms'[1],
                                     sinceReset |-> sinceReset'])
    /\ UNCHANGED <<rendererPc, callVars, sceneKind, localStorage, samplesPerPixel,
                   ray, traversal, intermediate, accumulation, frameHistory,
                   pageRest>>

\* The two passes of the oldest frame of the queue, the kernel's paths
\* returning radiance: the compute pass writes the intermediate texture, the
\* accumulator pass blends it into the accumulation textures.
Passes(radiance, up, nodes) ==
    LET frame == Head(gpuQueue)
        color == kernel_main(frame.uniforms, radiance)
        currentFrameColor == storeIntermediate(color, up)
    IN  /\ intermediate' = currentFrameColor
        /\ accumulation' \in
              AccumulatorOutcomes(frame.uniforms, currentFrameColor, accumulation)
        /\ framesRendered' = framesRendered + 1
        /\ emitted' = emitted \cup {color}
        /\ lastEstimate' = color
        /\ nodesVisited' = nodes
        /\ lastFrame' = <<frame>>
        /\ gpuQueue' = Tail(gpuQueue)

\* The GPU executes the oldest frame of the queue in a scene with geometry.
FrameExecutes ==
    /\ gpuQueue # <<>>
    /\ sceneKind = "geometry"
    /\ \E radiance \in KernelColours, up \in BOOLEAN : Passes(radiance, up, {})
    /\ UNCHANGED <<rendererPc, callVars, sceneKind, localStorage, hostVars, ray,
                   traversal, pageRest>>

\* The GPU starts the oldest frame of the queue in the empty scene, once the
\* frame before it is done (the queue executes its submissions in order):
\* the kernel starts on the pixel's ray, entering ray_bvh_triangles.
KernelStarts ==
    /\ gpuQueue # <<>>
    /\ sceneKind = "empty"
    /\ traversal = <<>>
    /\ \E r \in EmptySceneRays : ray' = <<r>>
    /\ traversal' = <<ray_bvh_triangles_entry(EmptySceneBuffers)>>
    /\ UNCHANGED <<rendererPc, callVars, sceneKind, localStorage, hostVars,
                   gpuQueue, intermediate, accumulation, frameHistory, pageRest>>

\* The kernel runs the while loop of ray_bvh_triangles.  The loop reads the
\* BVH buffers and its locals only, so its iterations are taken together
\* (SpecTraverse takes them one at a time); a loop that does not exit keeps
\* the GPU on this frame.
KernelTraverse ==
    /\ traversal # <<>>
    /\ traversal[1].stack_ptr > 0
    /\ traversal' = <<bvh_loop(traversal[1], EmptySceneBuffers, ray[1])>>
    /\ UNCHANGED <<rendererPc, callVars, sceneKind, localStorage, hostVars,
                   gpuQueue, ray, intermediate, accumulation, frameHistory,
                   pageRest>>

\* ray_bvh_triangles returns, the path ends, and the passes of the frame
\* complete.
KernelReturns ==
    /\ traversal # <<>>
    /\ traversal[1].stack_ptr = 0
    /\ \E up \in BOOLEAN :
          Passes(ray_trace(<<ray_all_empty(traversal[1].closest_hit)>>), up,
                 traversal[1].visited)
    /\ ray' = <<>>
    /\ traversal' = <<>>
    /\ UNCHANGED <<rendererPc, callVars, sceneKind, localStorage, hostVars,
                   pageRest>>

\* What the page shows and renders is that of a new, empty renderer; the
\* stored control value is kept.
NewPage ==
    /\ sceneKind' = "none"
    /\ frameIndex' = 0
    /\ samplesPerPixel' = RInt(1)
    /\ uniforms' = <<>>
    /\ sinceReset' = <<>>
    /\ gpuQueue' = <<>>
    /\ ray' = <<>>
    /\ traversal' = <<>>
    /\ intermediate' = Zero3
    /\ accumulation' = Zero3
    /\ framesRendered' = 0
    /\ emitted' = {}
    /\ lastEstimate' = <<>>
    /\ nodesVisited' = {}
    /\ lastFrame' = <<>>
    /\ UNCHANGED <<localStorage, pageRest>>

\* The page is loaded again, at any time after main() has started (main()
\* goes on from Create's return without returning to the event loop): every
\* call of main() ends with the page.
Reload ==
    /\ rendererPc \notin {"unloaded", "created"}
    /\ rendererPc' = "unloaded"
    /\ debugPipeline' = FALSE
    /\ controlsShown' = FALSE
    /\ otherMains' = NoOtherMains
    /\ NewPage

\* A change of the 'Scene' select (lines 843-846), which is there from the
\* first step of main() on: the handler calls main() again, which clears
\* the settings, the controls of every earlier call with them, and starts
\* Create on a new renderer.  Nothing is stopped: the earlier calls go on, a
\* call inside Create adds its controls when Create returns, and a render
\* loop keeps rendering.  The page is followed either with the new call or,
\* as before, with the call followed so far (SpecApp follows the renderers
\* of all the calls).
SceneSelectChange ==
    /\ rendererPc \notin {"unloaded", "created"}
    /\ \E follow \in BOOLEAN :
          IF follow
          THEN /\ otherMains' =
                      [creating |-> otherMains.creating
                                       + (IF rendererPc \in {"creating", "buffers"}
                                          THEN 1 ELSE 0),
                       shown |-> 0]
               /\ otherMains'.creating <= MaxOtherMains
               /\ rendererPc' = "creating"
               /\ debugPipeline' = FALSE
               /\ controlsShown' = FALSE
               /\ NewPage
          ELSE /\ otherMains.creating < MaxOtherMains
               /\ otherMains' = [creating |-> otherMains.creating + 1, shown |-> 0]
               /\ controlsShown' = FALSE
               /\ UNCHANGED <<rendererPc, debugPipeline, sceneKind, localStorage,
                              hostVars, deviceVars, frameHistory, pageRest>>

\* Create returns the renderer of another call of main(), and that call
\* adds its controls to the settings (lines 848-893).
OtherMainControls ==
    /\ rendererPc # "created"
    /\ otherMains.creating > 0
    /\ otherMains' = [creating |-> otherMains.creating - 1,
                      shown |-> otherMains.shown + 1]
    /\ UNCHANGED <<rendererPc, debugPipeline, controlsShown, sceneKind,
                   localStorage, hostVars, deviceVars, frameHistory, pageRest>>

\* Create returns null in another call of main(), which returns (lines
\* 853-856).
OtherCreateFails ==
    /\ rendererPc # "created"
    /\ otherMains.creating > 0
    /\ otherMains' = [otherMains EXCEPT !.creating = @ - 1]
    /\ UNCHANGED <<rendererPc, debugPipeline, controlsShown, sceneKind,
                   localStorage, hostVars, deviceVars, frameHistory, pageRest>>

\* An input event of the 'Samples per pixel' control of another call of
\* main(): the value is stored under the key all the calls share, and the
\* handler sets the renderer of its own call.
OtherSamplesInput ==
    /\ rendererPc # "created"
    /\ otherMains.shown > 0
    /\ \E value \in OtherControlValues : localStorage' = <<value>>
    /\ UNCHANGED <<rendererPc, callVars, sceneKind, hostVars, deviceVars,
                   frameHistory, pageRest>>

PageNext ==
    \/ Main
    \/ RendererCreateFails
    \/ RendererCreateBuffers
    \/ RendererCreate
    \/ MainControls
    \/ SceneSelectChange
    \/ OtherMainControls
    \/ OtherCreateFails
    \/ OtherSamplesInput
    \/ SamplesInput
    \/ ResetAccumulation
    \/ RenderSubmits
    \/ FrameExecutes
    \/ KernelStarts
    \/ KernelTraverse
    \/ KernelReturns
    \/ Reload

SpecPage == PageInit /\ [][PageNext]_vars

----------------------------------------------------------------------------
(* Claims about the page, checked under SpecPage *)

\* Equal within the rounding of the colour pipeline (binary16 in the
\* intermediate texture: relative error below 2^-10 on values up to 2).
Close(x, y) == RLeq(RAbs(RSub(x, y)), <<1, 500>>)

Close3(u, v) == \A k \in 1..3 : Close(u[k], v[k])

\* No frame since main() came from a kernel run with samplesPerPixel = NaN.
NumbersOnly == NaN3 \notin emitted

\* C4 as the specification states it: when the kernel has emitted the same
\* colour c for the pixel on every frame since start-up, the stored value is
\* saturate(c) after every frame.
AccumulatorIdempotent ==
    \A c \in emitted :
        (framesRendered >= 1 /\ emitted = {c} /\ NumbersOnly)
            => Close3(accumulation, V3Saturate(c))

\* One frame of colour (1, 0.5, 0) since start-up, and half of it stored.
AccumulatorHalvesWitness ==
    /\ framesRendered = 1
    /\ lastFrame[1].uniforms.frameIndex = 1
    /\ emitted = {Vec3(<<1, 1>>, <<1, 2>>, <<0, 1>>)}
    /\ accumulation = Vec3(<<1, 2>>, <<1, 4>>, <<0, 1>>)

\* The latest frame executed is the k-th that render() submitted after a
\* resetAccumulation().
FrameAfterReset(k) == lastFrame # <<>> /\ lastFrame[1].sinceReset = <<k>>

\* C5 as the specification states it: the first frame after
\* resetAccumulation() stores saturate(c_new), c_new that frame's kernel
\* colour, whatever was stored before.
ResetStartsAfresh ==
    (FrameAfterReset(1) /\ NumbersOnly)
        => Close3(accumulation, V3Saturate(lastEstimate))

\* A frame of colour (1, 0.5, 0), a reset, a frame of colour sky: the mean of
\* the value stored before the reset, (0.5, 0.25, 0), and sky rounded to
\* binary16 is stored.
ResetBlendsWitness ==
    /\ framesRendered = 2
    /\ FrameAfterReset(1)
    /\ lastFrame[1].uniforms.frameIndex = 1
    /\ lastEstimate = sky_color
    /\ accumulation = Vec3(<<1843, 4096>>, <<1331, 4096>>, <<819, 4096>>)

\* C9 as the specification states it: in the empty scene every path ends as
\* a miss on its first intersection, the traversal reads no node of
\* bvh_nodes, and after one frame the pixel's stored value is sky.
EmptySceneShowsSky ==
    (sceneKind = "empty" /\ NumbersOnly)
        => /\ traversal # <<>> => traversal[1].visited = {}
           /\ framesRendered >= 1 => lastEstimate = sky_color
           /\ framesRendered = 1 => (nodesVisited = {} /\ Close3(accumulation, sky_color))

\* The first frame of the empty scene: the path missed, the traversal read
\* node 0 of the zero-filled buffer, and half of sky is stored.
EmptySceneWitness ==
    /\ sceneKind = "empty"
    /\ framesRendered = 1
    /\ lastEstimate = sky_color
    /\ nodesVisited = {0}
    /\ accumulation = Splat(<<819, 4096>>)

\* In the empty scene, the traversal of a ray that meets the box of node 0
\* keeps an entry on its stack after every iteration: it never returns.
ZeroNodeRayNeverReturns ==
    (traversal # <<>> /\ ray # <<>> /\ ray[1].boxes = {0})
        => /\ traversal[1].stack_ptr >= 1
           /\ bvh_loop(traversal[1], EmptySceneBuffers, ray[1]).stack_ptr
                 = stack_size - 1

\* render() returned at queue.submit and the control wrote the uniforms
\* before the GPU executed the frame: the frame in the queue reads
\* samplesPerPixel = 1, the uniform buffer will hold 4.
FrameInFlightWitness ==
    /\ sceneKind = "geometry"
    /\ framesRendered = 0
    /\ Len(gpuQueue) = 1
    /\ gpuQueue[1].uniforms = [frameIndex |-> 1, samplesPerPixel |-> RInt(1)]
    /\ uniforms = updateUniformsBuffer(1, RInt(4))

\* The kernel of the first frame of the empty scene does not return, and the
\* render loop, the button and the control go on: further frames are in
\* the queue, the last one submitted after a reset.
KernelHungWitness ==
    /\ sceneKind = "empty"
    /\ traversal # <<>> /\ traversal[1].stack_ptr = stack_size - 1
    /\ Len(gpuQueue) = MaxFrames
    /\ gpuQueue[MaxFrames].sinceReset = <<1>>
    /\ samplesPerPixel = RInt(16)

\* A call of main() that rejected at updateDebugBuffers renders no frame.
RejectedNeverRenders ==
    rendererPc = "rejected"
        => framesRendered = 0 /\ gpuQueue = <<>> /\ frameIndex = 0 /\ ~debugPipeline

\* createDebugBuffers() threw after createDebugPipeline() had assigned the
\* pipeline: the renderer Create discards has its debug pipeline.
DiscardedWithPipelineWitness ==
    /\ rendererPc = "failed"
    /\ debugPipeline
    /\ uniforms = updateUniformsBuffer(0, RInt(1))

\* A createBindGroup call threw: Create returned the renderer without a
\* debug pipeline, main() added its controls, wrote the uniforms and
\* rejected before the render loop.
MainRejectsWitness ==
    /\ rendererPc = "rejected"
    /\ controlsShown
    /\ uniforms = updateUniformsBuffer(0, RInt(1))
    /\ framesRendered = 0

\* Create failed while awaiting createDebugPipeline(): the scene is loaded
\* and the uniforms are written.
CreateFailsAfterUniformsWitness ==
    /\ rendererPc = "failed"
    /\ sceneKind = "geometry"
    /\ uniforms = updateUniformsBuffer(0, RInt(1))

\* The select was changed while the first call of main() was inside Create:
\* the control of the first call stores "4" while the renderer of the
\* second call is still being created.
OtherControlStoresWitness ==
    /\ rendererPc = "creating"
    /\ otherMains = [creating |-> 0, shown |-> 1]
    /\ localStorage = << <<"4">> >>
    /\ uniforms = <<>>

\* The select was changed while the followed call was inside Create: its
\* controls are in the settings the later call cleared, its loop renders,
\* and the control of the later call has stored ".5" while this renderer
\* keeps samplesPerPixel = 4.
StoredValueOfOtherCallWitness ==
    /\ rendererPc = "running"
    /\ controlsShown
    /\ otherMains.shown = 1
    /\ framesRendered = 2
    /\ samplesPerPixel = RInt(4)
    /\ localStorage = << <<".", "5">> >>

\* C10 as the specification states it: the samplesPerPixel written to the
\* uniforms is an integer from 1 to 16.
SamplesClamped ==
    uniforms # <<>>
        => LET s == uniforms[1].samplesPerPixel
           IN  s[2] = 1 /\ 1 <= s[1] /\ s[1] <= 16

\* main() run with ".5" stored for the control: NaN in the uniforms.
SamplesNaNWitness ==
    /\ rendererPc = "running"
    /\ localStorage = << <<".", "5">> >>
    /\ framesRendered = 0
    /\ samplesPerPixel = NaN
    /\ uniforms[1].samplesPerPixel = NaN

----------------------------------------------------------------------------
(* The 'BVH Depth' control and the wireframe builder

   main() adds the control with addInput (the stored value or '1'), calls
   updateDebugBuffers(parseInt(value)) once, and the input handler calls
   updateDebugBuffers(parseInt(value) || 1) on every input event.
   updateDebugBuffers hands its argument to the wireframe builder of the BVH
   under the name buildWireframeVertices(maxDepth).  Class BVH of
   src/src/BVH.ts has its wireframe builder under the name
   getWireframeVertices(maxDepth) and no method buildWireframeVertices, and
   no other file of src/ defines one: the method main.ts calls is modelled
   from the specification, as the wireframe builder it describes. *)

\* The values the 'BVH Depth' number input can hold
DepthControlValues ==
    { <<>>, <<"0">>, <<"1">>, <<"2">>, <<"-", "1">>, <<".", "5">> }

\* a / b of two non-negative integers as JavaScript numbers: 0 / 0 is NaN,
\* a / 0 is Infinity
JsQuotient(a, b) == IF b # 0 THEN Rat(a, b) ELSE IF a = 0 THEN NaN ELSE Inf

\* this.stats?.maxDepth ?? 4: 4 only when there are no statistics
ColorDepthScale(bvhStats) == IF bvhStats = <<>> THEN 4 ELSE bvhStats[1].maxDepth

\* generateBoundingBoxVertices: the 8 corners, moved away from min by the
\* factor 1.01, and the 24 end points of the 12 edges
generateBoundingBoxVertices(bbox) ==
    LET lo == bbox.min
        hi == bbox.max
        raw == << <<lo[1], lo[2], lo[3]>>, <<hi[1], lo[2], lo[3]>>,
                  <<hi[1], hi[2], lo[3]>>, <<lo[1], hi[2], lo[3]>>,
                  <<lo[1], lo[2], hi[3]>>, <<hi[1], lo[2], hi[3]>>,
                  <<hi[1], hi[2], hi[3]>>, <<lo[1], hi[2], hi[3]>> >>
        corners == [i \in 1..8 |->
                      [a \in 1..3 |->
                          RAdd(RInt(lo[a]),
                               RMul(RInt(raw[i][a] - lo[a]), Rat(101, 100)))]]
        edges == << <<0, 1>>, <<1, 2>>, <<2, 3>>, <<3, 0>>,
                    <<4, 5>>, <<5, 6>>, <<6, 7>>, <<7, 4>>,
                    <<0, 4>>, <<1, 5>>, <<2, 6>>, <<3, 7>> >>
    IN  [k \in 1..(2 * Len(edges)) |->
            corners[edges[(k + 1) \div 2][2 - (k % 2)] + 1]]

\* The while loop of getWireframeVertices: nodesToVisit is a stack (pop takes
\* the last element); a node deeper than a non-negative maxDepth is skipped
\* with its subtree, every other node adds the vertices of its box, coloured
\* by its depth, and pushes its children, left then right.
RECURSIVE wireframe_loop(_, _, _, _)
wireframe_loop(nodesToVisit, maxDepth, bvhStats, allBoxes) ==
    IF nodesToVisit = <<>> THEN allBoxes
    ELSE LET currentNode == nodesToVisit[Len(nodesToVisit)]
             popped == SubSeq(nodesToVisit, 1, Len(nodesToVisit) - 1)
         IN  IF /\ maxDepth # NaN
                /\ RLeq(RInt(0), maxDepth)
                /\ RLess(maxDepth, RInt(currentNode.depth))
             THEN wireframe_loop(popped, maxDepth, bvhStats, allBoxes)
             ELSE LET pushed ==
                          IF currentNode.isLeaf THEN popped
                          ELSE popped \o currentNode.leftChild \o currentNode.rightChild
                  IN  wireframe_loop(pushed, maxDepth, bvhStats,
                          Append(allBoxes,
                                 [boundingBox |-> currentNode.boundingBox,
                                  depth |-> currentNode.depth,
                                  vertices |->
                                      generateBoundingBoxVertices(currentNode.boundingBox),
                                  color |-> <<JsQuotient(currentNode.depth,
                                                         ColorDepthScale(bvhStats)),
                                              RInt(0), RInt(0)>>]))

\* getWireframeVertices(maxDepth), as the list of the boxes it draws, each
\* with its 24 vertices and their colour
getWireframeVertices(rootNode, bvhStats, maxDepth) ==
    IF rootNode = null THEN <<>>
    ELSE wireframe_loop(rootNode, maxDepth, bvhStats, <<>>)

\* bvh.buildWireframeVertices(maxDepth), the method createDebugBuffers and
\* updateDebugBuffers call: the wireframe builder of the specification (a
\* depth-first visit of the nodes down to the depth limit given, the 24 end
\* points of the 12 edges of each box, red = node.depth / maxDepth), which is
\* what getWireframeVertices of BVH.ts computes.
buildWireframeVertices(rootNode, bvhStats, maxDepth) ==
    getWireframeVertices(rootNode, bvhStats, maxDepth)

\* updateDebugBuffers(newDepth) of a renderer whose device, bvh, debug
\* pipeline and debug vertex buffer are set: the wireframe written to the
\* vertex buffer.  The BVH is the one its constructor built, statistics
\* included.  (Without a debug pipeline the call throws: MainSetup.)
updateDebugBuffers(tris, newDepth) ==
    CHOOSE boxes \in
        { buildWireframeVertices(rootNode,
                               IF rootNode # null
                               THEN <<collectBVHStats(rootNode[1], 0)>> ELSE <<>>,
                               newDepth) : rootNode \in {buildBVH(tris)} } : TRUE

\* The scenes of the debug view: up to MaxTriangles triangles taken in turn
\* from TriA, TriB, TriC or from TriC, TriA, TriB.
DebugScenes ==
    { [k \in 1..n |-> base[((k - 1) % 3) + 1]] :
          n \in 0..MaxTriangles, base \in {<<TriA, TriB, TriC>>, <<TriC, TriA, TriB>>} }

DebugInit ==
    /\ debugPc = "unloaded"
    /\ debugTris \in DebugScenes
    /\ depthStored = <<>>
    /\ depthEntered = <<>>
    /\ maxDepthPassed = <<>>
    /\ wireframe = <<>>
    /\ BVHIdle /\ PageIdle /\ PathIdle /\ MISIdle /\ LoaderIdle /\ RestIdle

\* main() after WebGPURenderer.Create has returned the renderer, lines
\* 880-893: the control is added with the stored value or '1', then
\* renderer.updateDebugBuffers(parseInt(bvhDepth)).
DebugMain ==
    /\ debugPc = "unloaded"
    /\ LET bvhDepth == loadValue(depthStored, <<"1">>)
           depth == parseInt(bvhDepth)
       IN  /\ depthEntered' = <<bvhDepth>>
           /\ maxDepthPassed' = <<depth>>
           /\ wireframe' = updateDebugBuffers(debugTris, depth)
    /\ debugPc' = "running"
    /\ UNCHANGED <<debugTris, depthStored, bvhVars, pageVars, pathVars, misVars,
                   loaderVars, restVars>>

\* An input event of the control: the value is stored, then the handler
\* calls updateDebugBuffers(parseInt(value) || 1) (renderer.bvh is set for
\* every loaded scene).
DepthInput ==
    /\ debugPc = "running"
    /\ \E value \in DepthControlValues :
          LET depth == NumberOr(parseInt(value), RInt(1))
          IN  /\ depthStored' = <<value>>
              /\ depthEntered' = <<value>>
              /\ maxDepthPassed' = <<depth>>
              /\ wireframe' = updateDebugBuffers(debugTris, depth)
    /\ UNCHANGED <<debugPc, debugTris, bvhVars, pageVars, pathVars, misVars,
                   loaderVars, restVars>>

\* The page is loaded again: localStorage is all that is kept.
DebugReload ==
    /\ debugPc = "running"
    /\ debugPc' = "unloaded"
    /\ depthEntered' = <<>>
    /\ maxDepthPassed' = <<>>
    /\ wireframe' = <<>>
    /\ UNCHANGED <<debugTris, depthStored, bvhVars, pageVars, pathVars, misVars,
                   loaderVars, restVars>>

DebugNext == DebugMain \/ DepthInput \/ DebugReload

SpecDebug == DebugInit /\ [][DebugNext]_vars

\* The string is an integer literal: an optional minus sign and digits.
IsIntegerLiteral(str) ==
    /\ str # <<>>
    /\ LET digits == IF str[1] = "-" THEN Tail(str) ELSE str
       IN  digits # <<>> /\ \A k \in 1..Len(digits) : IsDigit(digits[k])

\* C11 as the specification states it: the depth limit given to the
\* wireframe builder is a non-negative integer; a non-negative integer
\* entered in the control (0 included) is used unchanged, a negative one is
\* clamped to 0.
DepthClampedAtZero ==
    maxDepthPassed # <<>>
        => LET passed == maxDepthPassed[1]
               entered == depthEntered[1]
           IN  /\ passed # NaN /\ passed[2] = 1 /\ passed[1] >= 0
               /\ IsIntegerLiteral(entered)
                      => passed = IF parseInt(entered)[1] >= 0
                                  THEN parseInt(entered) ELSE RInt(0)

\* 0 entered in the control of a scene of two triangles: the builder is given
\* 1 and draws the root and both leaves.
DepthZeroWitness ==
    /\ debugTris = <<TriA, TriB>>
    /\ depthEntered = << <<"0">> >>
    /\ maxDepthPassed = <<RInt(1)>>
    /\ Len(wireframe) = 3

\* -1 entered: the builder is given -1, which it takes as "no limit".
DepthNegativeWitness ==
    /\ debugTris = <<TriA, TriB>>
    /\ depthEntered = << <<"-", "1">> >>
    /\ maxDepthPassed = <<RInt(-1)>>
    /\ Len(wireframe) = 3

----------------------------------------------------------------------------
(* The scene loader: parseOBJ, loadOBJ, loadScene (src/unnamed/part_001) and
   the geometry buffers of createBuffersAndBindGroups

   An OBJ text is the sequence of its lines after trim(): a position line
   [kind |-> "v", p |-> <<x, y, z>>], a normal line [kind |-> "vn", ...], a
   face line [kind |-> "f", text |-> the characters of the line], or
   any other line [kind |-> "other"].  Strings are sequences of characters,
   undefined is <<>>. *)

undefined == <<>>

\* str.split(sep) for a one-character separator: the pieces between the
\* occurrences of sep.
StrSplit(str, sep) ==
    LET at == { i \in 1..Len(str) : str[i] = sep }
        \* the position of the j-th separator; 0 and Len(str) + 1 at the ends
        cut(j) == IF j = 0 THEN 0
                  ELSE IF j > Cardinality(at) THEN Len(str) + 1
                  ELSE CHOOSE i \in at : Cardinality({ x \in at : x < i }) = j - 1
    IN  [j \in 1..(Cardinality(at) + 1) |-> SubSeq(str, cut(j - 1) + 1, cut(j) - 1)]

\* x ? parseInt(x) : undefined
parseIndex(x) == IF x = <<>> THEN undefined ELSE <<parseInt(x)>>

\* fv.split('/').map((x) => (x ? parseInt(x) : undefined)), destructured as
\* [vIdx, , nIdx]: each index is undefined or <<number>>.
FaceIndices(fv) ==
    LET at(strs, k) == IF k > Len(strs) THEN undefined ELSE parseIndex(strs[k])
    IN  CHOOSE idx \in { [vIdx |-> at(strs, 1), nIdx |-> at(strs, 3)] :
                             strs \in {StrSplit(fv, "/")} } : TRUE

\* a < b, a > b of JavaScript numbers: false when an operand is NaN
JsLess(a, b) == a # NaN /\ b # NaN /\ RLess(a, b)

\* array[index] for a number index: undefined unless the index is an
\* integer inside the array
ArrayAt(array, index) ==
    IF index # NaN /\ index[2] = 1 /\ index[1] >= 0 /\ index[1] < Len(array)
    THEN array[index[1] + 1] ELSE undefined

\* The body of the loop over the three vertices of one triangle of a face:
\* what is pushed on triangleVertices (nothing, or one element that may be
\* undefined) and whether console.warn is called.
faceVertex(fv, tempPositions, tempNormals) ==
    LET idx == FaceIndices(fv)
    IN  IF idx.vIdx = undefined \/ idx.nIdx = undefined
        THEN [pushed |-> <<>>, warned |-> FALSE]
        ELSE LET vIdx == idx.vIdx[1]
                 nIdx == idx.nIdx[1]
             IN  IF \/ JsLess(vIdx, RInt(1))
                    \/ JsLess(RInt(Len(tempPositions)), vIdx)
                    \/ JsLess(nIdx, RInt(1))
                    \/ JsLess(RInt(Len(tempNormals)), nIdx)
                 THEN [pushed |-> <<>>, warned |-> TRUE]
                 ELSE [pushed |-> <<ArrayAt(tempPositions, RSub(vIdx, RInt(1)))>>,
                       warned |-> FALSE]

\* One triangle of the fan of a face: the object pushed on triangles (v0,
\* v1, v2 are triangleVertices[0..2], undefined past its end) and the number
\* of warnings.
faceTriangle(fvs, tempPositions, tempNormals) ==
    LET r == [k \in 1..3 |-> faceVertex(fvs[k], tempPositions, tempNormals)]
        triangleVertices == r[1].pushed \o r[2].pushed \o r[3].pushed
        at(k) == IF k <= Len(triangleVertices) THEN triangleVertices[k] ELSE undefined
    IN  [triangle |-> [v0 |-> at(1), v1 |-> at(2), v2 |-> at(3)],
         warnings |-> Cardinality({k \in 1..3 : r[k].warned})]

\* str.trim(), for strings whose only white space is the space character
trim(str) ==
    LET inked == { i \in 1..Len(str) : str[i] # " " }
    IN  IF inked = {} THEN <<>>
        ELSE SubSeq(str, CHOOSE i \in inked : \A j \in inked : i <= j,
                         CHOOSE i \in inked : \A j \in inked : j <= i)

\* line.slice(2).trim().split(' ') of a face line
faceParts(line) == StrSplit(trim(SubSeq(line, 3, Len(line))), " ")

\* The fan triangulation of one face line: for i = 1 .. parts.length - 2 the
\* triangle of parts[0], parts[i], parts[i + 1].
faceLine(parts, tempPositions, tempNormals) ==
    IF Len(parts) < 3 THEN <<>>
    ELSE [i \in 1..(Len(parts) - 2) |->
             faceTriangle(<<parts[1], parts[i + 1], parts[i + 2]>>,
                          tempPositions, tempNormals)]

\* The locals of parseOBJ before its loop over the lines.  warnings records
\* the calls of console.warn: for every triangle pushed, the number of
\* warnings of its three face vertices; faces records, for every face line,
\* its text, the tables at that line and the triangles it pushed.
parseOBJ_entry(objText) ==
    [lines |-> objText, k |-> 1, tempPositions |-> <<>>, tempNormals |-> <<>>,
     triangles |-> <<>>, warnings |-> <<>>, faces |-> <<>>]

\* One iteration of the loop of parseOBJ over the lines
parseLine(st) ==
    LET line == st.lines[st.k]
        next == [st EXCEPT !.k = @ + 1]
    IN  IF line.kind = "v"
        THEN [next EXCEPT !.tempPositions = Append(@, line.p)]
        ELSE IF line.kind = "vn"
        THEN [next EXCEPT !.tempNormals = Append(@, line.p)]
        ELSE IF line.kind = "f"
        THEN CHOOSE after \in
                 { [next EXCEPT
                      !.triangles = @ \o [i \in 1..Len(fan) |-> fan[i].triangle],
                      !.warnings = @ \o [i \in 1..Len(fan) |-> fan[i].warnings],
                      !.faces = Append(@, [text |-> line.text,
                                           tempPositions |-> st.tempPositions,
                                           tempNormals |-> st.tempNormals,
                                           triangles |-> [i \in 1..Len(fan) |->
                                                             fan[i].triangle]])] :
                      fan \in {faceLine(faceParts(line.text), st.tempPositions,
                                        st.tempNormals)} } : TRUE
        ELSE next

\* Largest number of models in a manifest.
MaxModels == 2

\* The meshes the server holds, by path.
ObjV(x, y, z) == [kind |-> "v", p |-> <<x, y, z>>]

\* The face tokens of parts, sep between each two of them
RECURSIVE JoinParts(_, _)
JoinParts(parts, sep) ==
    IF parts = <<>> THEN <<>>
    ELSE IF Len(parts) = 1 THEN parts[1]
    ELSE parts[1] \o sep \o JoinParts(Tail(parts), sep)

\* The line "f " followed by the face tokens, sep between them
ObjFSep(parts, sep) == [kind |-> "f", text |-> <<"f", " ">> \o JoinParts(parts, sep)]

ObjF(parts) == ObjFSep(parts, <<" ">>)

ObjHead ==
    <<ObjV(0, 0, 0), ObjV(3, 0, 0), ObjV(0, 3, 0), [kind |-> "vn", p |-> <<0, 0, 1>>]>>

\* "1//1" and so on
Fv(v) == <<v, "/", "/", "1">>

MeshTexts ==
    [tri   |-> ObjHead \o <<ObjF(<<Fv("1"), Fv("2"), Fv("3")>>)>>,
     quad  |-> <<ObjV(16777217, 0, 0)>> \o ObjHead
                  \o <<ObjF(<<Fv("1"), Fv("2"), Fv("3"), Fv("4")>>)>>,
     range |-> ObjHead \o <<ObjF(<<Fv("1"), Fv("2"), Fv("4")>>),
                            ObjF(<<Fv("3"), Fv("2"), Fv("1")>>)>>,
     shift |-> ObjHead \o <<ObjF(<<Fv("0"), Fv("2"), Fv("3")>>)>>,
     plain |-> ObjHead \o <<ObjF(<< <<"1">>, <<"2">>, <<"3">> >>)>>,
     wide  |-> ObjHead \o <<ObjFSep(<<Fv("1"), Fv("2"), Fv("3")>>, <<" ", " ">>)>>,
     edge  |-> ObjHead \o <<ObjF(<<Fv("1"), Fv("2")>>),
                            ObjF(<<Fv("3"), Fv("1"), Fv("2")>>)>>,
     word  |-> ObjHead \o <<ObjF(<<Fv("x"), Fv("2"), Fv("3")>>)>>,
     blank |-> <<>>,
     page  |-> <<[kind |-> "other"], [kind |-> "other"]>>]

\* fetch(url): the promise rejects ("reject"), or resolves with a response
\* that has a status (ok or not) and a body.
Server ==
    [tri   |-> [kind |-> "ok", text |-> MeshTexts.tri],
     quad  |-> [kind |-> "ok", text |-> MeshTexts.quad],
     range |-> [kind |-> "ok", text |-> MeshTexts.range],
     shift |-> [kind |-> "ok", text |-> MeshTexts.shift],
     plain |-> [kind |-> "ok", text |-> MeshTexts.plain],
     wide  |-> [kind |-> "ok", text |-> MeshTexts.wide],
     edge  |-> [kind |-> "ok", text |-> MeshTexts.edge],
     word  |-> [kind |-> "ok", text |-> MeshTexts.word],
     blank |-> [kind |-> "ok", text |-> MeshTexts.blank],
     gone  |-> [kind |-> "notok", text |-> MeshTexts.page],
     down  |-> [kind |-> "reject", text |-> <<>>]]

MatRed ==
    [color |-> <<1, 0, 0>>, emissionColor |-> <<0, 0, 0>>, emissionStrength |-> 0,
     smoothness |-> 0, specularProbability |-> 0]

MatLamp ==
    [color |-> <<1, 1, 1>>, emissionColor |-> <<1, 1, 0>>, emissionStrength |-> 5,
     smoothness |-> 1, specularProbability |-> 1]

\* An entity with the five material fields of mat
WithMaterial(shape, mat) ==
    [k \in DOMAIN shape \cup DOMAIN mat |->
        IF k \in DOMAIN mat THEN mat[k] ELSE shape[k]]

Model(url, position, scale, mat) ==
    WithMaterial([path |-> url, position |-> position, rotation |-> <<0, 0, 0>>,
                  scale |-> scale], mat)

\* The models of the manifests: every path with the identity transform, two
\* of them scaled and moved as well, and a model without path.
ModelPalette ==
    { Model(<<p>>, <<0, 0, 0>>, <<1, 1, 1>>, MatRed) : p \in DOMAIN Server }
        \cup { Model(<<"tri">>, <<10, 0, -2>>, <<2, 1, 3>>, MatLamp),
               Model(<<"quad">>, <<0, 1, 0>>, <<1, 1, 1>>, MatLamp),
               Model(<<>>, <<0, 0, 0>>, <<1, 1, 1>>, MatRed) }

ManifestTriangles ==
    { <<>>,
      <<WithMaterial([v0 |-> <<0, 0, 5>>, v1 |-> <<1, 0, 5>>, v2 |-> <<0, 1, 5>>],
                     MatLamp)>> }

ManifestSpheres ==
    { <<>>,
      <<WithMaterial([center |-> <<0, 0, 0>>, radius |-> 1], MatRed),
        WithMaterial([center |-> <<5, 0, 0>>, radius |-> 2], MatLamp)>> }

Manifests ==
    { [spheres |-> s, triangles |-> t, models |-> m] :
          s \in ManifestSpheres, t \in ManifestTriangles,
          m \in UNION { [1..n -> ModelPalette] : n \in 0..MaxModels } }

\* vec3.transformMat4(vec3.fromValues(v), modelMat) for the model matrix
\* translate * rotate(0) * scale: single precision throughout.
transformMat4(v, model) ==
    [k \in 1..3 |-> Fround(model.scale[k] * Fround(v[k]) + model.position[k])]

\* The loop of loadScene over objData.triangles, from the k-th triangle on:
\* the triangles pushed on scene.triangles, and whether reading a vertex of
\* an undefined v0, v1 or v2 threw a TypeError.
RECURSIVE pushModelTriangles(_, _, _, _)
pushModelTriangles(objTriangles, k, model, sceneTris) ==
    IF k > Len(objTriangles) THEN [triangles |-> sceneTris, threw |-> FALSE]
    ELSE LET triangle == objTriangles[k]
         IN  IF undefined \in {triangle.v0, triangle.v1, triangle.v2}
             THEN [triangles |-> sceneTris, threw |-> TRUE]
             ELSE pushModelTriangles(objTriangles, k + 1, model,
                      Append(sceneTris,
                             [v0 |-> transformMat4(triangle.v0, model),
                              v1 |-> transformMat4(triangle.v1, model),
                              v2 |-> transformMat4(triangle.v2, model),
                              color |-> model.color,
                              emissionColor |-> model.emissionColor,
                              emissionStrength |-> model.emissionStrength,
                              smoothness |-> model.smoothness,
                              specularProbability |-> model.specularProbability]))

\* Float32Array elements written for one sphere (16) and one triangle (24)
packSphere(sphere) ==
    [k \in 1..3 |-> Fround(sphere.center[k])] \o <<Fround(sphere.radius)>>
        \o [k \in 1..3 |-> Fround(sphere.color[k])] \o <<Fround(sphere.smoothness)>>
        \o [k \in 1..3 |-> Fround(sphere.emissionColor[k])]
        \o <<Fround(sphere.emissionStrength), Fround(sphere.specularProbability),
             0, 0, 0>>

packTriangle(triangle) ==
    [k \in 1..3 |-> Fround(triangle.v0[k])] \o <<0>>
        \o [k \in 1..3 |-> Fround(triangle.v1[k])] \o <<0>>
        \o [k \in 1..3 |-> Fround(triangle.v2[k])] \o <<0>>
        \o [k \in 1..3 |-> Fround(triangle.color[k])] \o <<0>>
        \o [k \in 1..3 |-> Fround(triangle.emissionColor[k])]
        \o <<Fround(triangle.emissionStrength), Fround(triangle.smoothness),
             Fround(triangle.specularProbability), 0, 0>>

\* The for-of loops of createBuffersAndBindGroups that fill spheresData and
\* trianglesData, from entity k on
RECURSIVE packSpheres(_, _, _)
packSpheres(spheres, k, spheresData) ==
    IF k > Len(spheres) THEN spheresData
    ELSE packSpheres(spheres, k + 1, spheresData \o packSphere(spheres[k]))

RECURSIVE packTriangles(_, _, _)

\* The loop writing each triangle before the data written so far
packTrianglesInFront(tris, k, trianglesData) ==
    IF k > Len(tris) THEN trianglesData
    ELSE packTriangles(tris, k + 1, packTriangle(tris[k]) \o trianglesData)

packTriangles(tris, k, trianglesData) ==
    IF k > Len(tris) THEN trianglesData
    ELSE packTriangles(tris, k + 1, trianglesData \o packTriangle(tris[k]))

LoadInit ==
    /\ loadPc = "start"
    /\ manifest \in Manifests
    /\ sceneTriangles = <<>>
    /\ modelIndex = 0
    /\ parser = <<>>
    /\ parsedLog = <<>>
    /\ failedMeshes = {}
    /\ loadError = <<>>
    /\ loadResult = <<>>
    /\ geometry = <<>>
    /\ BVHIdle /\ PageIdle /\ PathIdle /\ MISIdle /\ DebugIdle /\ RestIdle

\* loadScene up to its loop (part_001:113-118): the manifest is fetched and
\* parsed; or fetch rejects and loadScene rejects with that error; or the
\* response is not OK and loadScene throws Error('Failed to load scene
\* file: ' + statusText); or response.json() rejects (the body is no JSON)
\* and loadScene rejects with its SyntaxError.
FetchManifest ==
    /\ loadPc = "start"
    /\ \E outcome \in {"ok", "notok", "reject", "json"} :
          IF outcome = "ok"
          THEN /\ loadPc' = "models"
               /\ sceneTriangles' = manifest.triangles
               /\ modelIndex' = 1
               /\ UNCHANGED loadError
          ELSE /\ loadPc' = "rejected"
               /\ loadError' =
                     <<[message |-> CASE outcome = "notok" -> "Failed to load scene file"
                                      [] outcome = "reject" -> "TypeError (fetch rejected)"
                                      [] outcome = "json" -> "SyntaxError (response.json rejected)",
                        path |-> <<>>, cause |-> <<>>]>>
               /\ UNCHANGED <<sceneTriangles, modelIndex>>
    /\ UNCHANGED <<manifest, parser, parsedLog, failedMeshes, loadResult, geometry,
                   bvhVars, pageVars, pathVars, misVars,
                   debugVars, restVars>>

\* The head of one iteration of the loop over scene.models: a model without
\* path is skipped; otherwise loadOBJ fetches the mesh: the fetch rejects
\* and the error is rethrown as RethrownError('Failed to load model: ' +
\* path, error), or parseOBJ starts on res.text() whatever the status of the
\* response.
FetchModel ==
    /\ loadPc = "models"
    /\ parser = <<>>
    /\ modelIndex <= Len(manifest.models)
    /\ LET model == manifest.models[modelIndex]
       IN  IF model.path = <<>>
           THEN /\ modelIndex' = modelIndex + 1
                /\ UNCHANGED <<loadPc, parser, failedMeshes, loadError>>
           ELSE LET res == Server[model.path[1]]
                IN  IF res.kind = "reject"
                    THEN /\ loadPc' = "rejected"
                         /\ loadError' = <<[message |-> "Failed to load model",
                                            path |-> model.path,
                                            cause |-> <<"fetch">>]>>
                         /\ failedMeshes' = failedMeshes \cup {modelIndex}
                         /\ UNCHANGED <<parser, modelIndex>>
                    ELSE /\ parser' = <<parseOBJ_entry(res.text)>>
                         /\ failedMeshes' = IF res.kind = "notok"
                                            THEN failedMeshes \cup {modelIndex}
                                            ELSE failedMeshes
                         /\ UNCHANGED <<loadPc, loadError, modelIndex>>
    /\ UNCHANGED <<manifest, sceneTriangles, parsedLog, loadResult, geometry,
                   bvhVars, pageVars, pathVars, misVars,
                   debugVars, restVars>>

\* parseOBJ: one line of the mesh
ParseLine ==
    /\ parser # <<>>
    /\ parser[1].k <= Len(parser[1].lines)
    /\ parser' = <<parseLine(parser[1])>>
    /\ UNCHANGED <<loadPc, manifest, sceneTriangles, modelIndex, parsedLog,
                   failedMeshes, loadError, loadResult, geometry,
                   bvhVars, pageVars, pathVars, misVars,
                   debugVars, restVars>>

\* parseOBJ returns and loadScene transforms and pushes the triangles of
\* the model; a TypeError is rethrown as RethrownError('Failed to load
\* model: ' + path, error).
PushModel ==
    /\ parser # <<>>
    /\ parser[1].k > Len(parser[1].lines)
    /\ LET model == manifest.models[modelIndex]
       IN  \E pushed \in {pushModelTriangles(parser[1].triangles, 1, model,
                                             sceneTriangles)} :
              /\ sceneTriangles' = pushed.triangles
              /\ IF pushed.threw
                 THEN /\ loadPc' = "rejected"
                      /\ loadError' = <<[message |-> "Failed to load model",
                                         path |-> model.path,
                                         cause |-> <<"TypeError">>]>>
                 ELSE UNCHANGED <<loadPc, loadError>>
    /\ parsedLog' = Append(parsedLog, [tempPositions |-> parser[1].tempPositions,
                                       triangles |-> parser[1].triangles,
                                       warnings |-> parser[1].warnings,
                                       faces |-> parser[1].faces])
    /\ parser' = <<>>
    /\ modelIndex' = modelIndex + 1
    /\ UNCHANGED <<manifest, failedMeshes, loadResult, geometry,
                   bvhVars, pageVars, pathVars, misVars,
                   debugVars, restVars>>

\* The return of loadScene
ReturnScene ==
    /\ loadPc = "models"
    /\ parser = <<>>
    /\ modelIndex > Len(manifest.models)
    /\ loadResult' = <<[spheres |-> manifest.spheres, triangles |-> sceneTriangles]>>
    /\ loadPc' = "resolved"
    /\ UNCHANGED <<manifest, sceneTriangles, modelIndex, parser, parsedLog,
                   failedMeshes, loadError, geometry, bvhVars, pageVars, pathVars, misVars,
                   debugVars, restVars>>

\* createBuffersAndBindGroups: the data of the spheres and triangles buffers
CreateGeometryBuffers ==
    /\ loadPc = "resolved"
    /\ geometry' = <<[spheresData |-> packSpheres(loadResult[1].spheres, 1, <<>>),
                      trianglesData |-> packTriangles(loadResult[1].triangles, 1, <<>>)]>>
    /\ loadPc' = "packed"
    /\ UNCHANGED <<manifest, sceneTriangles, modelIndex, parser, parsedLog,
                   failedMeshes, loadError, loadResult, bvhVars, pageVars, pathVars, misVars,
                   debugVars, restVars>>

LoadNext ==
    \/ FetchManifest \/ FetchModel \/ ParseLine \/ PushModel
    \/ ReturnScene \/ CreateGeometryBuffers

SpecLoad == LoadInit /\ [][LoadNext]_vars

\* C12 as the specification states it: a face with an index outside the
\* parsed tables, or without one, is reported and yields no triangle, so
\* every triangle parseOBJ returned has three defined vertices, each an
\* entry of the parsed position table, and none of its face vertices was
\* warned about.
ParsedTrianglesDefined ==
    \A i \in 1..Len(parsedLog) :
        LET result == parsedLog[i]
        IN  \A k \in 1..Len(result.triangles) :
               /\ result.warnings[k] = 0
               /\ \A v \in {result.triangles[k].v0, result.triangles[k].v1,
                            result.triangles[k].v2} :
                      v # undefined /\ v \in Range(result.tempPositions)

\* The mesh whose first face names position 4 of 3: one warning, and the
\* triangle is returned with v2 undefined; its second face is intact.
ParsedUndefinedWitness ==
    \E i \in 1..Len(parsedLog) :
        /\ Len(parsedLog[i].triangles) = 2
        /\ parsedLog[i].triangles[1] =
               [v0 |-> <<0, 0, 0>>, v1 |-> <<3, 0, 0>>, v2 |-> undefined]
        /\ parsedLog[i].warnings = <<1, 0>>

\* The mesh whose face names position "x": parseInt gives NaN, no comparison
\* with NaN holds, nothing is warned, and tempPositions[NaN - 1], undefined,
\* is pushed as v0.
ParsedNaNIndexWitness ==
    \E i \in 1..Len(parsedLog) :
        /\ Len(parsedLog[i].triangles) = 1
        /\ parsedLog[i].triangles[1] =
               [v0 |-> undefined, v1 |-> <<3, 0, 0>>, v2 |-> <<0, 3, 0>>]
        /\ parsedLog[i].warnings = <<0>>

\* C13 as the specification states it: when the mesh of a model fails to
\* load (the fetch rejects or the response is not OK), loadScene rejects with
\* an error that names the path of that model and keeps the cause, and
\* returns no Scene.
MeshFailurePropagates ==
    (failedMeshes # {} /\ loadPc \in {"resolved", "rejected", "packed"})
        => /\ loadPc = "rejected"
           /\ loadResult = <<>>
           /\ \E i \in failedMeshes : loadError[1].path = manifest.models[i].path
           /\ loadError[1].cause # <<>>

\* A manifest whose only model is answered with a non-OK response: loadScene
\* returns a Scene without triangles.
MeshNotFoundWitness ==
    /\ loadPc = "resolved"
    /\ Len(manifest.models) = 1
    /\ manifest.models[1].path = <<"gone">>
    /\ failedMeshes = {1}
    /\ manifest.triangles = <<>>
    /\ loadResult[1].triangles = <<>>
    /\ loadError = <<>>

\* The models of the manifest that have a path, in manifest order
PathModels == SelectSeq(manifest.models, LAMBDA m : m.path # <<>>)

\* The triangle loadScene makes of triangle t of the mesh of model m
WorldTriangle(t, m) ==
    WithMaterial([v0 |-> transformMat4(t.v0, m), v1 |-> transformMat4(t.v1, m),
                  v2 |-> transformMat4(t.v2, m)],
                 [f \in DOMAIN MatRed |-> m[f]])

\* The number of triangles before those of the j-th parsed mesh
RECURSIVE BlockStart(_)
BlockStart(j) ==
    IF j = 1 THEN Len(manifest.triangles)
    ELSE BlockStart(j - 1) + Len(parsedLog[j - 1].triangles)

\* C14: the Scene holds the spheres in manifest order and the triangles as
\* the manifest's own triangles followed by the triangles of each model, in
\* model order and face order; the buffers hold entity i in slot i (16
\* floats per sphere, 24 per triangle).
SceneOrderPreserved ==
    /\ loadResult # <<>> =>
          LET scene == loadResult[1]
          IN  /\ scene.spheres = manifest.spheres
              /\ Len(parsedLog) = Len(PathModels)
              /\ Len(scene.triangles) = BlockStart(Len(parsedLog) + 1)
              /\ \A i \in 1..Len(manifest.triangles) :
                     scene.triangles[i] = manifest.triangles[i]
              /\ \A j \in 1..Len(parsedLog) :
                     \A k \in 1..Len(parsedLog[j].triangles) :
                         scene.triangles[BlockStart(j) + k] =
                             WorldTriangle(parsedLog[j].triangles[k], PathModels[j])
    /\ geometry # <<>> =>
          LET scene == loadResult[1]
              data == geometry[1]
          IN  /\ Len(data.spheresData) = 16 * Len(scene.spheres)
              /\ Len(data.trianglesData) = 24 * Len(scene.triangles)
              /\ \A i \in 1..Len(scene.spheres) :
                     SubSeq(data.spheresData, 16 * (i - 1) + 1, 16 * i)
                         = packSphere(scene.spheres[i])
              /\ \A i \in 1..Len(scene.triangles) :
                     SubSeq(data.trianglesData, 24 * (i - 1) + 1, 24 * i)
                         = packTriangle(scene.triangles[i])

\* A manifest with one triangle of its own, the quad (moved by (0, 1, 0),
\* two triangles by fan triangulation) and the triangle mesh, loaded and
\* packed: four triangles in that order, the first vertex of the quad
\* rounded to single precision.
SceneOrderWitness ==
    /\ loadPc = "packed"
    /\ Len(manifest.spheres) = 2
    /\ Len(manifest.triangles) = 1
    /\ Len(manifest.models) = 2
    /\ manifest.models[1].path = <<"quad">> /\ manifest.models[1].position = <<0, 1, 0>>
    /\ manifest.models[2].path = <<"tri">> /\ manifest.models[2].position = <<0, 0, 0>>
    /\ LET tris == loadResult[1].triangles
       IN  /\ Len(tris) = 4
           /\ tris[1].v0 = <<0, 0, 5>>
           /\ tris[2].v0 = <<16777216, 1, 0>> /\ tris[2].v1 = <<0, 1, 0>>
           /\ tris[2].v2 = <<3, 1, 0>>
           /\ tris[3].v0 = <<16777216, 1, 0>> /\ tris[3].v1 = <<3, 1, 0>>
           /\ tris[3].v2 = <<0, 4, 0>>
           /\ tris[3].color = <<1, 1, 1>> /\ tris[3].emissionStrength = 5
           /\ tris[4].v2 = <<0, 3, 0>> /\ tris[4].color = <<1, 0, 0>>
    /\ Len(geometry[1].trianglesData) = 96
    /\ geometry[1].trianglesData[25] = 16777216
    /\ geometry[1].spheresData[17] = 5

----------------------------------------------------------------------------
(* render() and the GPU queue: WebGPURenderer.render (src/src/main.ts),
   the compute kernel's main (src/src/BVH.ts) and the accumulator's fs_main
   (src/public/debug.wgsl).

   A pass is a grid of invocations, one per pixel.  The model follows a
   sample of each grid: the invocations and fragments at the first columns
   and rows and at the edges of the canvas and of the dispatch. *)

\* Largest number of executions of render() followed.
MaxRenders == 3

\* Largest number of operations waiting on the GPU queue.
MaxQueue == 8

\* @workgroup_size(8, 8) and the dispatch size of render().
workgroup_size == 8

\* The resolution fs_main is written for.
accumulatorResolution == [width |-> 1024, height |-> 768]

\* The sizes of the canvas element.
CanvasSizes ==
    { [width |-> 1024, height |-> 768],
      [width |-> 2048, height |-> 768],
      [width |-> 512,  height |-> 384],
      [width |-> 12,   height |-> 10] }

\* dispatchX and dispatchY of render().
dispatchSize(resolution) ==
    [x |-> CeilDiv(resolution.width, workgroup_size),
     y |-> CeilDiv(resolution.height, workgroup_size)]

\* The sampled positions on an axis of n pixels covered by limit
\* invocations.
SampleAxis(n, limit) ==
    { k \in {0, 1, 2, n - 2, n - 1, n, limit - 1} : 0 <= k /\ k < limit }

\* The kernel's main, as far as the texel it stores to: <<>> when the
\* invocation returns at the bounds check, else <<pixel_coords>>.
main_store(global_id, resolution) ==
    LET pixel_coords == global_id
    IN  IF pixel_coords[1] >= resolution.width \/ pixel_coords[2] >= resolution.height
        THEN <<>>
        ELSE <<pixel_coords>>

\* WGSL clamp(e, low, high) on vec2<i32> components.
clampI(e, low, high) == Min(Max(e, low), high)

\* The interpolated uv of the fragment at column (or row) f of a target of
\* n pixels, times the resolution r fs_main multiplies it by, truncated:
\* i32(input.uv.x * resolution.x) with uv.x = (f + 0.5) / n.
pixelCoordRaw(f, n, r) == ((2 * f + 1) * r) \div (2 * n)

\* pixelCoord of fs_main for the fragment at <<fx, fy>> of the canvas.
fs_pixelCoord(fragment, resolution) ==
    << clampI(pixelCoordRaw(fragment[1], resolution.width, accumulatorResolution.width),
             0, accumulatorResolution.width - 1),
       clampI(pixelCoordRaw(fragment[2], resolution.height, accumulatorResolution.height),
             0, accumulatorResolution.height - 1) >>

\* textureStore on a texture of the size of the canvas: a store outside the
\* texture writes nothing.
InTexture(texel, resolution) ==
    /\ 0 <= texel[1] /\ texel[1] < resolution.width
    /\ 0 <= texel[2] /\ texel[2] < resolution.height

\* The writes of the compute pass: every sampled invocation of the dispatch
\* runs main.
computePassWrites(resolution) ==
    LET d == dispatchSize(resolution)
        ids == SampleAxis(resolution.width, d.x * workgroup_size)
                 \X SampleAxis(resolution.height, d.y * workgroup_size)
    IN  { [id |-> g, texel |-> main_store(g, resolution)[1]] :
            g \in { h \in ids : main_store(h, resolution) # <<>> } }

\* The writes of the accumulator pass: draw(6) covers the target, one
\* fragment per pixel of the canvas.
accumulatorPassWrites(resolution) ==
    LET frags == SampleAxis(resolution.width, resolution.width)
                   \X SampleAxis(resolution.height, resolution.height)
    IN  { [fragment |-> f, texel |-> fs_pixelCoord(f, resolution)] :
            f \in { h \in frags : InTexture(fs_pixelCoord(h, resolution), resolution) } }

\* The number of columns (or rows) of fragments whose pixelCoord is x, of
\* all n columns of the target.
axisWriters(x, n, r) ==
    Cardinality({ f \in 0..(n - 1) : clampI(pixelCoordRaw(f, n, r), 0, r - 1) = x })

\* For each sampled texel of the accumulation textures, the number of
\* fragments of the whole pass that store to it.
countTexelWriters(resolution) ==
    LET xs == SampleAxis(resolution.width, resolution.width)
        ys == SampleAxis(resolution.height, resolution.height)
        cx == [x \in xs |-> axisWriters(x, resolution.width, accumulatorResolution.width)]
        cy == [y \in ys |-> axisWriters(y, resolution.height, accumulatorResolution.height)]
    IN  [t \in xs \X ys |-> cx[t[1]] * cy[t[2]]]

renderAccumulateFirst(index, resolution, debug) ==
    LET d == dispatchSize(resolution)
        wire == IF debug THEN << [op |-> "wireframe", frame |-> index] >> ELSE <<>>
    IN  [calls |-> <<"frameIndex++", "writeBuffer", "dispatchWorkgroups", "draw(6)">>
                     \o (IF debug THEN <<"draw(wireframe)">> ELSE <<>>)
                     \o <<"submit">>,
         debug |-> debug,
         ops   |-> << [op |-> "writeBuffer", frame |-> index],
                      [op |-> "accumulate", frame |-> index],
                      [op |-> "compute", frame |-> index] >> \o wire]

\* render(): the calls it makes in order, and the operations it hands to
\* the queue (the uniform write, then the passes of the one command buffer).
render(index, resolution, debug) ==
    LET d == dispatchSize(resolution)
        wire == IF debug THEN << [op |-> "wireframe", frame |-> index] >> ELSE <<>>
    IN  [calls |-> <<"frameIndex++", "writeBuffer", "dispatchWorkgroups", "draw(6)">>
                     \o (IF debug THEN <<"draw(wireframe)">> ELSE <<>>)
                     \o <<"submit">>,
         debug |-> debug,
         ops   |-> << [op |-> "writeBuffer", frame |-> index],
                      [op |-> "compute", frame |-> index],
                      [op |-> "accumulate", frame |-> index] >> \o wire]

FrameInit ==
    /\ canvas = <<>>
    /\ debugEnabled = FALSE
    /\ frameSeq = 0
    /\ lastRender = <<>>
    /\ queue = <<>>
    /\ timeline = <<>>
    /\ intermediateWrites = {}
    /\ accumulationWrites = {}
    /\ texelWriters = <<>>
    /\ BVHIdle /\ PageIdle /\ PathIdle /\ MISIdle /\ DebugIdle /\ LoaderIdle
    /\ SphereIdle /\ TravIdle /\ LateIdle

\* WebGPURenderer.Create: the resolution is the size of the canvas; the
\* textures are created at that size.
CreateRenderer ==
    /\ canvas = <<>>
    /\ \E size \in CanvasSizes : canvas' = <<size>>
    /\ UNCHANGED <<debugEnabled, frameSeq, lastRender, queue, timeline, intermediateWrites,
                   accumulationWrites, texelWriters, bvhVars, pageVars, pathVars, misVars,
                   debugVars, loaderVars, sphereVars, travVars, lateVars>>

\* setDebug(checked): the 'Debug' checkbox.
SetDebug ==
    /\ \E checked \in BOOLEAN : checked # debugEnabled /\ debugEnabled' = checked
    /\ UNCHANGED <<canvas, frameSeq, lastRender, queue, timeline, intermediateWrites,
                   accumulationWrites, texelWriters, bvhVars, pageVars, pathVars, misVars,
                   debugVars, loaderVars, sphereVars, travVars, lateVars>>

\* One execution of render() with all resources.
RenderFrame ==
    /\ canvas # <<>>
    /\ frameSeq < MaxRenders
    /\ Len(queue) + 4 <= MaxQueue
    /\ \E r \in { render(frameSeq + 1, canvas[1], debugEnabled) } :
          /\ lastRender' = <<[calls |-> r.calls, debug |-> r.debug]>>
          /\ queue' = queue \o r.ops
    /\ frameSeq' = frameSeq + 1
    /\ UNCHANGED <<canvas, debugEnabled, timeline, intermediateWrites, accumulationWrites,
                   texelWriters, bvhVars, pageVars, pathVars, misVars,
                   debugVars, loaderVars, sphereVars, travVars, lateVars>>

\* The GPU executes the operation at the head of the queue.
GPUExecute ==
    /\ queue # <<>>
    /\ queue' = Tail(queue)
    /\ timeline' = Append(timeline, Head(queue))
    /\ intermediateWrites' =
          IF Head(queue).op = "compute" THEN computePassWrites(canvas[1])
          ELSE intermediateWrites
    /\ IF Head(queue).op = "accumulate"
       THEN /\ accumulationWrites' = accumulatorPassWrites(canvas[1])
            /\ \E c \in { countTexelWriters(canvas[1]) } : texelWriters' = <<c>>
       ELSE UNCHANGED <<accumulationWrites, texelWriters>>
    /\ UNCHANGED <<canvas, debugEnabled, frameSeq, lastRender, bvhVars, pageVars, pathVars,
                   misVars,
                   debugVars, loaderVars, sphereVars, travVars, lateVars>>

FrameNext ==
    \/ CreateRenderer
    \/ SetDebug
    \/ RenderFrame
    \/ GPUExecute

SpecFrame == FrameInit /\ [][FrameNext]_vars

----------------------------------------------------------------------------
(* Claims about render() and the passes, checked under SpecFrame *)

\* C15 as the specification states it: within one frame no two invocations
\* write the same texel, for every size of the canvas: an invocation of the
\* kernel writes the intermediate texture only at its own coordinates, which
\* are inside the image, and every texel of the accumulation textures is
\* written by exactly one fragment of the accumulator pass.
DisjointTexelWrites ==
    /\ \A w \in intermediateWrites :
          /\ w.texel = w.id
          /\ w.texel[1] < canvas[1].width /\ w.texel[2] < canvas[1].height
    /\ \A a, b \in accumulationWrites : a.fragment # b.fragment => a.texel # b.texel
    /\ texelWriters # <<>> =>
          \A t \in DOMAIN texelWriters[1] : texelWriters[1][t] = 1

\* An accumulator pass ran on a canvas twice as wide as the resolution
\* fs_main is written for, and two fragments stored to one texel.
SharedTexelWitness ==
    /\ canvas # <<>> /\ canvas[1].width = 2 * accumulatorResolution.width
    /\ \E a, b \in accumulationWrites : a.fragment # b.fragment /\ a.texel = b.texel

\* On a canvas of the resolution fs_main is written for, the passes write
\* disjoint texels and every texel has one writer.
DisjointAtNativeSize ==
    (canvas # <<>> /\ canvas[1] = accumulatorResolution) => DisjointTexelWrites

\* Position of the operation op of frame f on the timeline, 0 if absent.
TimelinePos(op, f) ==
    LET at == { i \in 1..Len(timeline) : timeline[i].op = op /\ timeline[i].frame = f }
    IN  IF at = {} THEN 0 ELSE CHOOSE i \in at : TRUE

\* C16: an execution of render() increments frameIndex, writes the
\* uniforms, dispatches the compute grid, runs the accumulation pass, runs
\* the wireframe pass only if debug is enabled, and submits once, in this
\* order; the compute pass of a frame is executed before its accumulation
\* pass, and the accumulation pass of a frame before that of the next frame.
PerFrameOrdering ==
    /\ lastRender # <<>> =>
          /\ lastRender[1].calls =
                IF lastRender[1].debug
                THEN <<"frameIndex++", "writeBuffer", "dispatchWorkgroups", "draw(6)",
                       "draw(wireframe)", "submit">>
                ELSE <<"frameIndex++", "writeBuffer", "dispatchWorkgroups", "draw(6)",
                       "submit">>
    /\ \A i \in 1..Len(timeline) :
          /\ \A j \in 1..Len(timeline) :
                (i # j /\ timeline[i].op = timeline[j].op) =>
                    timeline[i].frame # timeline[j].frame
          /\ timeline[i].op = "accumulate" =>
                /\ TimelinePos("writeBuffer", timeline[i].frame) \in 1..(i - 1)
                /\ TimelinePos("compute", timeline[i].frame) \in
                      (TimelinePos("writeBuffer", timeline[i].frame) + 1)..(i - 1)
                /\ timeline[i].frame > 1 =>
                      TimelinePos("accumulate", timeline[i].frame - 1) \in 1..(i - 1)
          /\ timeline[i].op = "wireframe" =>
                TimelinePos("accumulate", timeline[i].frame) \in 1..(i - 1)

\* The GPU ran the accumulation pass of a second frame, and a wireframe pass.
SecondFrameWitness ==
    /\ TimelinePos("accumulate", 2) > 0
    /\ \E i \in 1..Len(timeline) : timeline[i].op = "wireframe"
    /\ lastRender # <<>> /\ ~lastRender[1].debug

----------------------------------------------------------------------------
(* The frame after a reset, checked under SpecPage *)

\* C17 as the specification states it: the first frame after
\* resetAccumulation() is dispatched with frameIndex = 0 in the uniforms, so
\* its accumulator pass takes the first-frame branch: it does not read the
\* stored value and the weight of the new colour is 1.
ResetTakesFirstFrameBranch ==
    FrameAfterReset(1) =>
        /\ lastFrame[1].uniforms.frameIndex = 0
        /\ \A stored \in {Zero3, One3} :
              fs_main(lastFrame[1].uniforms, lastEstimate, stored)
                  = fs_main(lastFrame[1].uniforms, lastEstimate, Zero3)

\* A frame, a reset, and a frame: the uniforms of that frame hold
\* frameIndex = 1 and the accumulator's result depends on the stored value.
ResetFrameIndexOneWitness ==
    /\ framesRendered = 2
    /\ FrameAfterReset(1)
    /\ frameIndex = 1
    /\ lastFrame[1].uniforms.frameIndex = 1
    /\ lastEstimate # NaN3
    /\ fs_main(lastFrame[1].uniforms, lastEstimate, One3)
          # fs_main(lastFrame[1].uniforms, lastEstimate, Zero3)

----------------------------------------------------------------------------
(* ray_sphere_intersect (src/public/common.wgsl), on exact rationals.  The
   rays and spheres are chosen so that every square root taken is rational. *)

V3Sub(u, v) == [k \in 1..3 |-> RSub(u[k], v[k])]

\* WGSL dot(u, v)
dot(u, v) == V3Sum(V3Mul(u, v))

\* The square root of a perfect square
ISqrt(n) == CHOOSE k \in 0..n : k * k = n

\* WGSL sqrt(x), x a non-negative rational in lowest terms with a rational
\* root
sqrt(x) == <<ISqrt(x[1]), ISqrt(x[2])>>

\* WGSL normalize(v) = v / length(v)
normalize(v) == V3DivScalar(v, sqrt(dot(v, v)))

\* HitInfo(-1.0, vec3<f32>(), vec3<f32>(), ...)
NoHit == [t |-> RInt(-1), normal |-> Zero3]

\* The threshold of the root tests, 0.01
tMin == <<1, 100>>

ray_sphere_intersect(r, s) ==
    LET oc == V3Sub(r.origin, s.center)
        a == dot(r.direction, r.direction)
        b == RMul(RInt(2), dot(oc, r.direction))
        c == RSub(dot(oc, oc), RMul(s.radius, s.radius))
        discriminant == RSub(RMul(b, b), RMul(RInt(4), RMul(a, c)))
    IN  IF RLess(discriminant, RInt(0)) THEN NoHit
        ELSE LET sqrt_discriminant == sqrt(discriminant)
                 t1 == RDiv(RSub(RNeg(b), sqrt_discriminant), RMul(RInt(2), a))
                 t2 == RDiv(RAdd(RNeg(b), sqrt_discriminant), RMul(RInt(2), a))
             IN  IF RLess(tMin, t1)
                 THEN LET hit_point == V3Add(r.origin, V3Scale(r.direction, t1))
                          normal == normalize(V3Sub(hit_point, s.center))
                      IN  [t |-> t1, normal |-> normal]
                 ELSE IF RLess(tMin, t2)
                 THEN LET hit_point == V3Add(r.origin, V3Scale(r.direction, t2))
                          normal == normalize(V3Sub(hit_point, s.center))
                      IN  [t |-> t1, normal |-> normal]
                 ELSE NoHit

\* Rays along the x axis, at height 0, 3, 4 or 6, starting before, on, in
\* and behind the spheres, one of them 0.005 before the surface of the
\* larger sphere; directions of length 1 and 2.
SphereRays ==
    { [origin |-> Vec3(ox, RInt(oy), RInt(0)), direction |-> Vec3(RInt(dx), RInt(0), RInt(0))] :
        ox \in { RInt(k) : k \in -7..7 } \cup { <<-1001, 200>> },
        oy \in {0, 3, 4, 6},
        dx \in {1, 2, -1} }

\* Spheres of radius 1 and 5 around the origin
Spheres == { [center |-> Zero3, radius |-> RInt(rad)] : rad \in {1, 5} }

SphereInit ==
    /\ sphereRay \in { <<r>> : r \in SphereRays }
    /\ sphereObj \in { <<s>> : s \in Spheres }
    /\ sphereHit = <<>>
    /\ BVHIdle /\ PageIdle /\ PathIdle /\ MISIdle /\ DebugIdle /\ LoaderIdle
    /\ FrameIdle /\ TravIdle /\ LateIdle

\* ray_all calls ray_sphere_intersect(ray, spheres[i]).
IntersectSphere ==
    /\ sphereHit = <<>>
    /\ sphereHit' = <<ray_sphere_intersect(sphereRay[1], sphereObj[1])>>
    /\ UNCHANGED <<sphereRay, sphereObj, bvhVars, pageVars, pathVars, misVars, debugVars,
                   loaderVars, frameVars, travVars, lateVars>>

SphereNext == IntersectSphere

SpecSphere == SphereInit /\ [][SphereNext]_vars

----------------------------------------------------------------------------
(* Claims about ray_sphere_intersect, checked under SpecSphere *)

\* The parameters t at which the ray r meets the surface of the sphere s,
\* in increasing order: the t with |origin + t direction - center| = radius.
SphereRoots(r, s) ==
    LET oc == V3Sub(r.origin, s.center)
        a == dot(r.direction, r.direction)
        h == dot(oc, r.direction)
        c == RSub(dot(oc, oc), RMul(s.radius, s.radius))
        q == RSub(RMul(h, h), RMul(a, c))
    IN  IF RLess(q, RInt(0)) THEN <<>>
        ELSE << RDiv(RSub(RNeg(h), sqrt(q)), a), RDiv(RAdd(RNeg(h), sqrt(q)), a) >>

\* The unit normal of the sphere s at the point of the ray r at parameter t
SphereNormalAt(r, s, t) ==
    V3DivScalar(V3Sub(V3Add(r.origin, V3Scale(r.direction, t)), s.center), s.radius)

\* C18 as the specification states it: with roots t1 <= t2 the hit reported
\* has the t of the smaller root above 0.01 (t1 if t1 > 0.01, else t2 if
\* t2 > 0.01) and the normal at that same t; a miss is reported when neither
\* root is above 0.01.
SphereSmallerRootAboveMin ==
    sphereHit # <<>> =>
        LET roots == SphereRoots(sphereRay[1], sphereObj[1])
            hit == sphereHit[1]
        IN  IF roots = <<>> THEN hit = NoHit
            ELSE IF RLess(tMin, roots[1])
            THEN /\ hit.t = roots[1]
                 /\ hit.normal = SphereNormalAt(sphereRay[1], sphereObj[1], roots[1])
            ELSE IF RLess(tMin, roots[2])
            THEN /\ hit.t = roots[2]
                 /\ hit.normal = SphereNormalAt(sphereRay[1], sphereObj[1], roots[2])
            ELSE hit = NoHit

\* A ray starting at the centre of the sphere of radius 5: the roots are -5
\* and 5, the hit reported has t = -5 and the normal at t = 5.
SphereInsideWitness ==
    /\ sphereHit # <<>>
    /\ sphereRay[1].origin = Zero3
    /\ sphereRay[1].direction = Vec3(RInt(1), RInt(0), RInt(0))
    /\ sphereObj[1].radius = RInt(5)
    /\ sphereHit[1].t = RInt(-5)
    /\ sphereHit[1].normal = Vec3(RInt(1), RInt(0), RInt(0))

\* With the first root above 0.01 the hit has t = t1 and the normal at t1;
\* with no root above 0.01 a miss is reported.
SphereOutsideCorrect ==
    sphereHit # <<>> =>
        LET roots == SphereRoots(sphereRay[1], sphereObj[1])
        IN  (roots = <<>> \/ RLess(tMin, roots[1]) \/ ~RLess(tMin, roots[2]))
                => SphereSmallerRootAboveMin

----------------------------------------------------------------------------
(* One call of ray_bvh_triangles (the kernel of src/src/BVH.ts) on the
   buffers of a scene, iteration by iteration, with a log of the stack
   operations. *)

\* Largest number of iterations of the while loop followed on a buffer of
\* fewer nodes (a traversal that visits each node once is followed to its end).
MaxTravSteps == 70

\* The bvh buffers of the scenes: createBuffersAndBindGroups on the
\* serialized BVH of the scene's triangles.
TravBuffersOf(rootNode) == CreateBVHBuffers(serializeBVH(rootNode))

\* The trees of the scenes
TravTrees == { buildBVH(tris) : tris \in DebugScenes }

\* The rays on the buffers bufs: any set of nodes whose box the ray meets;
\* the ray meets every triangle (at t = 1) or none.
TravRays(bufs) ==
    { [boxes |-> b, hits |-> [k \in 0..(Len(bufs.triangleIndices) - 1) |-> h]] :
        b \in SUBSET (0..(arrayLengthNodes(bufs) - 1)), h \in {-1, 1} }

\* The node popped by the next iteration is an internal node whose box the
\* ray meets: the iteration reaches the two pushes.
ReachesPushes(st, bufs, r) ==
    LET node_index == st.stack[st.stack_ptr - 1]
    IN  /\ node_index < arrayLengthNodes(bufs)
        /\ node_index \in r.boxes
        /\ ~(2 * FlatNodeAt(bufs, node_index).is_leaf > 1)

\* The triangles the iteration hands to ray_triangle_intersect, in order:
\* those of the slice of a leaf whose box the ray meets.
leafTests(st, bufs, r) ==
    LET ptr == st.stack_ptr - 1
        node_index == st.stack[ptr]
    IN  IF \/ node_index >= arrayLengthNodes(bufs)
           \/ node_index \notin r.boxes
           \/ ~(2 * FlatNodeAt(bufs, node_index).is_leaf > 1)
        THEN <<>>
        ELSE LET node == FlatNodeAt(bufs, node_index)
                 triangle_start == U32(node.left_or_triangle_start)
                 triangle_count == U32(node.right_or_triangle_count)
                 len == Len(bufs.triangleIndices)
                 max_triangles == IF triangle_start > len THEN triangle_count
                                  ELSE Min(triangle_count, len - triangle_start)
             IN  [i \in 1..max_triangles |->
                    [ev |-> "test",
                     node |-> IF triangle_start + i \in DOMAIN bufs.triangleIndices
                              THEN bufs.triangleIndices[triangle_start + i] ELSE 0,
                     size |-> ptr]]

\* The operations of the iteration from st to next: the pop, the triangle
\* tests of a leaf, or in the order of the writes the index pushed or the
\* child whose push was dropped.  size is stack_ptr at the operation.
iterationLog(st, next, bufs, r) ==
    LET ptr == st.stack_ptr - 1
        node_index == st.stack[ptr]
        pop == << [ev |-> "pop", node |-> node_index, size |-> st.stack_ptr] >>
    IN  IF ~ReachesPushes(st, bufs, r) THEN pop \o leafTests(st, bufs, r)
        ELSE LET node == FlatNodeAt(bufs, node_index)
                 left_child == U32(node.left_or_triangle_start)
                 right_child == U32(node.right_or_triangle_count)
                 pushed == next.stack_ptr - ptr
                 right == IF pushed >= 1
                          THEN [ev |-> "push", node |-> next.stack[ptr], size |-> ptr]
                          ELSE [ev |-> "drop", node |-> right_child, size |-> ptr]
                 afterRight == IF pushed >= 1 THEN ptr + 1 ELSE ptr
                 other == IF pushed = 1 /\ next.stack[ptr] # right_child
                          THEN right_child ELSE left_child
                 left == IF pushed >= 2
                         THEN [ev |-> "push", node |-> next.stack[ptr + 1],
                               size |-> afterRight]
                         ELSE [ev |-> "drop", node |-> other, size |-> afterRight]
             IN  pop \o <<right, left>>

TravInit ==
    /\ \E rootNode \in TravTrees :
          \E bufs \in {TravBuffersOf(rootNode)} :
             /\ travTree = rootNode
             /\ travBuffers = <<bufs>>
             /\ travRay \in { <<r>> : r \in TravRays(bufs) }
             /\ trav = <<ray_bvh_triangles_entry(bufs)>>
    /\ travLog = <<>>
    /\ BVHIdle /\ PageIdle /\ PathIdle /\ MISIdle /\ DebugIdle /\ LoaderIdle
    /\ FrameIdle /\ SphereIdle /\ LateIdle

\* One iteration of the while loop.
TraverseStep ==
    /\ trav[1].stack_ptr > 0
    /\ Cardinality({ i \in 1..Len(travLog) : travLog[i].ev = "pop" })
          < Max(MaxTravSteps, arrayLengthNodes(travBuffers[1]))
    /\ \E next \in { bvh_iteration(trav[1], travBuffers[1], travRay[1]) } :
          /\ trav' = <<next>>
          /\ travLog' = travLog \o iterationLog(trav[1], next, travBuffers[1], travRay[1])
    /\ UNCHANGED <<travTree, travBuffers, travRay, bvhVars, pageVars, pathVars, misVars,
                   debugVars, loaderVars, frameVars, sphereVars, lateVars>>

\* The loop ends and ray_bvh_triangles returns closest_hit.
TraverseReturn ==
    /\ trav[1].stack_ptr = 0
    /\ (travLog = <<>> \/ travLog[Len(travLog)].ev # "return")
    /\ travLog' = Append(travLog, [ev |-> "return", node |-> 0, size |-> 0])
    /\ UNCHANGED <<travTree, travBuffers, travRay, trav, bvhVars, pageVars, pathVars,
                   misVars, debugVars, loaderVars, frameVars, sphereVars, lateVars>>

TravNext ==
    \/ TraverseStep
    \/ TraverseReturn

SpecTraverse == TravInit /\ [][TravNext]_vars

----------------------------------------------------------------------------
(* Claims about ray_bvh_triangles, checked under SpecTraverse *)

\* C19 as the specification states it: the stack holds at most 64 node
\* indices, no write goes outside the 64-entry array, and a push of a child
\* is dropped only when the stack already holds 64 entries.
StackBoundedDropsWhenFull ==
    /\ trav[1].stack_ptr \in 0..stack_size
    /\ \A i \in 1..Len(travLog) :
          /\ travLog[i].ev = "push" => travLog[i].size \in 0..(stack_size - 1)
          /\ travLog[i].ev = "drop" => travLog[i].size = stack_size

\* The push of a child was dropped while the stack held 63 entries.
StackDropAt63Witness ==
    /\ \E i \in 1..Len(travLog) :
          travLog[i].ev = "drop" /\ travLog[i].size = stack_size - 1
    /\ trav[1].stack_ptr = stack_size - 1

\* The stack never holds more than 63 indices and no write goes outside the
\* array.
StackWithinArray ==
    /\ trav[1].stack_ptr \in 0..(stack_size - 1)
    /\ \A i \in 1..Len(travLog) :
          travLog[i].ev = "push" => travLog[i].size \in 0..(stack_size - 2)

\* The children of node n of the buffers; none for a leaf.
ChildrenOf(bufs, n) ==
    IF n >= arrayLengthNodes(bufs) \/ 2 * FlatNodeAt(bufs, n).is_leaf > 1 THEN {}
    ELSE { U32(FlatNodeAt(bufs, n).left_or_triangle_start),
           U32(FlatNodeAt(bufs, n).right_or_triangle_count) }

\* The nodes reachable from the nodes of S through child slots, S included.
RECURSIVE SubtreeOf(_, _)
SubtreeOf(bufs, S) ==
    LET more == S \cup UNION { ChildrenOf(bufs, n) : n \in S }
    IN  IF more = S THEN S ELSE SubtreeOf(bufs, more)

\* The log positions at which node n, hit and internal, was popped.
InternalPops ==
    { i \in 1..Len(travLog) :
        /\ travLog[i].ev = "pop"
        /\ i < Len(travLog)
        /\ travLog[i + 1].ev \in {"push", "drop"} }

\* The pops between the pop at log position i and the pop that takes the
\* stack below the size it had then: every pop of a node of the left
\* subtree comes before every pop of a node of the right subtree.
LeftPopsFirst(i) ==
    LET node == FlatNodeAt(travBuffers[1], travLog[i].node)
        leftAll == SubtreeOf(travBuffers[1], {U32(node.left_or_triangle_start)})
        rightAll == SubtreeOf(travBuffers[1], {U32(node.right_or_triangle_count)})
        leftNodes == leftAll \ rightAll
        rightNodes == rightAll \ leftAll
        ends == { j \in (i + 1)..Len(travLog) :
                    (travLog[j].ev = "pop" /\ travLog[j].size < travLog[i].size)
                    \/ travLog[j].ev = "return" }
        last == IF ends = {} THEN Len(travLog) ELSE SetMin(ends) - 1
    IN  \A j, k \in (i + 1)..last :
            (/\ travLog[j].ev = "pop" /\ travLog[j].node \in rightNodes
             /\ travLog[k].ev = "pop" /\ travLog[k].node \in leftNodes)
                => k < j

\* The two stack operations after the pop at log position i are the push of
\* the right child and then the push of the left child.
PushedRightThenLeft(i) ==
    LET node == FlatNodeAt(travBuffers[1], travLog[i].node)
    IN  /\ travLog[i + 1] = [ev |-> "push", node |-> U32(node.right_or_triangle_count),
                             size |-> travLog[i].size - 1]
        /\ travLog[i + 2] = [ev |-> "push", node |-> U32(node.left_or_triangle_start),
                             size |-> travLog[i].size]

\* C20 as the specification states it: for every internal node whose box is
\* hit the right child is pushed and then the left child, and every node of
\* the left subtree is popped before any node of the right subtree.
LeftSubtreeFirst ==
    \A i \in InternalPops : PushedRightThenLeft(i) /\ LeftPopsFirst(i)

\* What the code does: for every internal node whose box is hit, popped
\* while the stack held at most 62 entries, the right child is pushed and
\* then the left child; popped while the stack held 63 entries, only the
\* right child is pushed; and every node of the left subtree that is popped
\* is popped before any node of the right subtree.
LeftSubtreeFirstWithRoom ==
    \A i \in InternalPops :
        /\ travLog[i].size < stack_size - 1 => PushedRightThenLeft(i)
        /\ travLog[i].size = stack_size - 1 =>
              /\ travLog[i + 1].ev = "push" /\ travLog[i + 1].size = stack_size - 2
              /\ travLog[i + 2].ev = "drop" /\ travLog[i + 2].size = stack_size - 1
        /\ LeftPopsFirst(i)

\* In the scene without triangles the left child of the zero-filled node 0
\* was not pushed: the stack held 63 entries.
LeftPushDroppedWitness ==
    /\ arrayLengthNodes(travBuffers[1]) = 1
    /\ Len(travBuffers[1].triangleIndices) = 1
    /\ \E i \in InternalPops :
          /\ travLog[i + 1].ev = "push"
          /\ travLog[i + 2].ev = "drop"

\* In a scene with triangles the children are pushed right then left and
\* the left subtree is popped first.
LeftSubtreeFirstInBuiltTrees ==
    Len(travBuffers[1].nodes) > 64 \div 4 => LeftSubtreeFirst

\* A traversal of a tree of five nodes that met every box and returned:
\* two internal nodes pushed their children, five nodes were popped.
FullTraversalWitness ==
    /\ arrayLengthNodes(travBuffers[1]) = 5
    /\ travRay[1].boxes = 0..4
    /\ travLog # <<>> /\ travLog[Len(travLog)].ev = "return"
    /\ Cardinality(InternalPops) = 2
    /\ \A i \in InternalPops : PushedRightThenLeft(i)
    /\ Cardinality({ i \in 1..Len(travLog) : travLog[i].ev = "pop" }) = 5

----------------------------------------------------------------------------
(* The path as a state machine, checked under SpecPath *)

\* The steps that end a call of ray_trace
TerminalSteps == {"miss", "extinction", "kill", "exhausted"}

\* The steps of the iteration with loop index k, in the order taken
StepsAt(k) ==
    LET at == { n \in 1..Len(pathTrace) : pathTrace[n].i = k /\ pathTrace[n].step # "exhausted" }
    IN  [n \in 1..Cardinality(at) |->
            pathTrace[CHOOSE m \in at : Cardinality({ x \in at : x < m }) = n - 1].step]

\* The orders of steps of one bounce: intersect, direct lighting, emission
\* and throughput update, Russian roulette (where roulette tells whether the
\* bounce draws), scatter; or the bounce ends the path at a terminal step.
BounceOrders(roulette) ==
    LET shaded == <<"intersect", "direct-lighting", "emission", "throughput">>
        draw == IF roulette THEN <<"roulette">> ELSE <<>>
    IN  { <<"intersect", "miss">>,
          shaded \o <<"extinction">>,
          shaded \o draw \o <<"scatter">> }
        \cup (IF roulette THEN { shaded \o <<"roulette", "kill">> } ELSE {})

\* C21: a call of ray_trace performs at most 6 bounce iterations and ends
\* in exactly one of the terminal states miss, colour-extinction, RR-kill
\* and bounces-exhausted; within a bounce the steps run in the order
\* intersect, direct lighting, emission and throughput update, Russian
\* roulette, scatter; a Russian-roulette draw happens only at bounce index 3
\* or above.
PathStateMachine ==
    LET terminal == { n \in 1..Len(pathTrace) : pathTrace[n].step \in TerminalSteps }
        bounces == { n \in 1..Len(pathTrace) : pathTrace[n].step = "intersect" }
    IN  /\ Cardinality(bounces) <= 6
        /\ \A n \in 1..Len(pathTrace) : pathTrace[n].i \in 0..6
        /\ pathPc = "loop" => terminal = {}
        /\ pathPc = "returned" => terminal = {Len(pathTrace)}
        /\ \A k \in 0..5 :
              \/ StepsAt(k) = <<>> /\ path.i <= k
              \/ StepsAt(k) \in BounceOrders(k >= 3)
        /\ \A n \in 1..Len(pathTrace) :
              /\ pathTrace[n].step = "roulette" => pathTrace[n].i >= 3
              /\ pathTrace[n].step = "exhausted" =>
                    /\ pathTrace[n].i = 6
                    /\ \A k \in 0..5 : StepsAt(k)[Len(StepsAt(k))] = "scatter"
        /\ \A n \in 1..(Len(pathTrace) - 1) : pathTrace[n].i <= pathTrace[n + 1].i

\* A path that was killed by the Russian-roulette draw of bounce 3.
PathKilledWitness ==
    /\ pathPc = "returned"
    /\ pathTrace[Len(pathTrace)] = [step |-> "kill", i |-> 3]
    /\ StepsAt(2) = <<"intersect", "direct-lighting", "emission", "throughput", "scatter">>
    /\ StepsAt(3) = <<"intersect", "direct-lighting", "emission", "throughput", "roulette",
                      "kill">>

\* A path that made six bounces and left the loop at its bound.
PathExhaustedWitness ==
    /\ pathPc = "returned"
    /\ pathTrace[Len(pathTrace)] = [step |-> "exhausted", i |-> 6]
    /\ Cardinality({ n \in 1..Len(pathTrace) : pathTrace[n].step = "roulette" }) = 3

\* A path that ended because its throughput went dark.
PathExtinctWitness ==
    /\ pathPc = "returned"
    /\ pathTrace[Len(pathTrace)].step = "extinction"

\* A path that left the scene on its third bounce.
PathMissWitness ==
    /\ pathPc = "returned"
    /\ pathTrace[Len(pathTrace)] = [step |-> "miss", i |-> 2]

\* The vertex tokens of a face line: the pieces of the text after "f " that
\* white space separates
FaceTokens(text) ==
    SelectSeq(StrSplit(SubSeq(text, 3, Len(text)), " "), LAMBDA piece : piece # <<>>)

\* A vertex token v/vt/vn whose indices lie inside the tables of the face
ValidFaceToken(fv, face) ==
    LET idx == FaceIndices(fv)
    IN  /\ idx.vIdx # undefined /\ idx.nIdx # undefined
        /\ idx.vIdx[1] \in { RInt(n) : n \in 1..Len(face.tempPositions) }
        /\ idx.nIdx[1] \in { RInt(n) : n \in 1..Len(face.tempNormals) }

\* The position a valid vertex token names
TokenPosition(fv, face) == face.tempPositions[FaceIndices(fv).vIdx[1][1]]

\* The fan (p0, pj, p(j+1)), j = 1 .. k - 2, of the tokens p0 .. p(k-1)
FanOf(tokens, face) ==
    [j \in 1..(Len(tokens) - 2) |->
        [v0 |-> TokenPosition(tokens[1], face),
         v1 |-> TokenPosition(tokens[j + 1], face),
         v2 |-> TokenPosition(tokens[j + 2], face)]]

\* What the fan triangulation asks of one face line
FaceIsFan(face) ==
    \A tokens \in {FaceTokens(face.text)} :
        /\ Len(tokens) < 3 => face.triangles = <<>>
        /\ (Len(tokens) >= 3 /\ \A k \in 1..Len(tokens) : ValidFaceToken(tokens[k], face))
              => face.triangles = FanOf(tokens, face)

\* C22 as the specification states it: a valid face with k >= 3 vertex
\* tokens p0 .. p(k-1) yields exactly the k - 2 triangles (p0, pj, p(j+1)),
\* j = 1 .. k - 2, in that order, and a face with fewer than 3 tokens yields
\* none.
FanTriangulation ==
    \A i \in 1..Len(parsedLog) :
        \A face \in Range(parsedLog[i].faces) : FaceIsFan(face)

\* The face "f 1//1  2//1  3//1", three valid tokens with two spaces between
\* them: five parts, hence three triangles, none of them the face.
FanWideFaceWitness ==
    \E i \in 1..Len(parsedLog) :
        \E face \in Range(parsedLog[i].faces) :
            /\ Len(FaceTokens(face.text)) = 3
            /\ Len(face.triangles) = 3
            /\ face.triangles[1].v2 = undefined

\* The fan triangulation holds for the faces whose tokens are separated by
\* one space each.
FanTriangulationSingleSpaced ==
    \A i \in 1..Len(parsedLog) :
        \A face \in Range(parsedLog[i].faces) :
            Len(faceParts(face.text)) = Len(FaceTokens(face.text)) => FaceIsFan(face)

\* The quad "f 1//1 2//1 3//1 4//1" has yielded (p0, p1, p2), (p0, p2, p3),
\* and the face "f 1//1 2//1" none.
FanQuadWitness ==
    /\ \E i \in 1..Len(parsedLog) :
          \E face \in Range(parsedLog[i].faces) :
              /\ Len(FaceTokens(face.text)) = 4
              /\ face.triangles =
                    << [v0 |-> <<16777217, 0, 0>>, v1 |-> <<0, 0, 0>>, v2 |-> <<3, 0, 0>>],
                       [v0 |-> <<16777217, 0, 0>>, v1 |-> <<3, 0, 0>>, v2 |-> <<0, 3, 0>>] >>
    /\ \E i \in 1..Len(parsedLog) :
          \E face \in Range(parsedLog[i].faces) :
              Len(FaceTokens(face.text)) = 2 /\ face.triangles = <<>>

----------------------------------------------------------------------------
(* buildBVH as a state machine: one call of splitNode per step.  The calls  *)
(* happen in the order of the recursion: a node, then its left subtree,    *)
(* then its right subtree.                                                 *)

\* TriNear and TriHigh share their centroid on x; TriNear is next to TriA,
\* TriHigh far from both on y.
TriNear == [v0 |-> <<1, 0, 0>>, v1 |-> <<4, 0, 0>>, v2 |-> <<1, 3, 0>>]
TriHigh == [v0 |-> <<1, 60, 0>>, v1 |-> <<4, 60, 0>>, v2 |-> <<1, 63, 0>>]

SplitPalette == {TriA, TriB, TriNear, TriHigh}

SplitLists == UNION { [1..n -> SplitPalette] : n \in 0..MaxTriangles }

\* One call of splitNode up to its recursive calls: the split found, the
\* lists of the centroid comparison (lines 242-253) and the lists the
\* children get (after lines 255-269).
splitNode_call(tris, node) ==
    IF Len(node.triangleIndices) <= 1
    THEN [node |-> node, bestSplit |-> null, compared |-> <<>>, children |-> <<>>]
    ELSE CHOOSE call \in
           { IF bestSplit = null
             THEN [node |-> node, bestSplit |-> null, compared |-> <<>>,
                   children |-> <<>>]
             ELSE [node |-> node, bestSplit |-> bestSplit,
                   compared |-> <<partitionLeft(tris, node.triangleIndices, bestSplit[1]),
                                  partitionRight(tris, node.triangleIndices,
                                                 bestSplit[1])>>,
                   children |-> splitLists(tris, node.triangleIndices, bestSplit[1])] :
             bestSplit \in {findBestSAHSplit(tris, node)} } : TRUE

SplitInit ==
    /\ splitTris \in SplitLists
    /\ splitWork = IF Len(splitTris) = 0 THEN <<>>
                   ELSE <<NewNode(splitTris, [k \in 1..Len(splitTris) |-> k - 1],
                                  calculateSceneBoundingBox(splitTris), 0)>>
    /\ splitLog = <<>>
    /\ EarlyIdle /\ AppIdle

\* A call of splitNode that makes its node a leaf
SplitLeaf ==
    /\ splitWork # <<>>
    /\ \E call \in {splitNode_call(splitTris, Head(splitWork))} :
          /\ call.children = <<>>
          /\ splitLog' = Append(splitLog, call)
          /\ splitWork' = Tail(splitWork)
    /\ UNCHANGED <<splitTris, earlyVars, appVars>>

\* A call of splitNode that creates two children; the call for the left
\* child comes next, the one for the right child after the left subtree.
SplitInternal ==
    /\ splitWork # <<>>
    /\ \E call \in {splitNode_call(splitTris, Head(splitWork))} :
          /\ call.children # <<>>
          /\ splitLog' = Append(splitLog, call)
          /\ splitWork' =
                << NewNode(splitTris, call.children[1],
                           calculateBoundingBoxForTriangles(splitTris, call.children[1]),
                           call.node.depth + 1),
                   NewNode(splitTris, call.children[2],
                           calculateBoundingBoxForTriangles(splitTris, call.children[2]),
                           call.node.depth + 1) >> \o Tail(splitWork)
    /\ UNCHANGED <<splitTris, earlyVars, appVars>>

SplitNext == SplitLeaf \/ SplitInternal

SpecSplit == SplitInit /\ [][SplitNext]_vars

\* The calls of splitNode that found a split
SplitCalls == { k \in 1..Len(splitLog) : splitLog[k].bestSplit # null }

\* The centroid of triangle t on the axis of the split, as compared
CentroidOn(t, bestSplit) == calculateTriangleCentroid(splitTris, t)[bestSplit.axis]

\* The number of times x occurs in seq
Occurrences(seq, x) == Cardinality({ k \in 1..Len(seq) : seq[k] = x })

\* seq1 and seq2 hold the same elements, each as often
SameElements(seq1, seq2) ==
    \A x \in Range(seq1) \cup Range(seq2) : Occurrences(seq1, x) = Occurrences(seq2, x)

\* C23: when the centroid comparison leaves one side empty for a node with
\* n >= 2 triangles, the children get the node's triangles in ascending
\* order of centroid on the split axis, cut at index floor(n / 2): both
\* children are non-empty and together hold exactly the node's triangles.
DegenerateFallback ==
    \A k \in SplitCalls :
        LET call == splitLog[k]
            n    == Len(call.node.triangleIndices)
            all  == call.children[1] \o call.children[2]
        IN  (n >= 2 /\ <<>> \in Range(call.compared))
               => /\ Len(call.children[1]) = n \div 2
                  /\ call.children[1] # <<>> /\ call.children[2] # <<>>
                  /\ SameElements(all, call.node.triangleIndices)
                  /\ \A a, b \in 1..n :
                        a < b => CentroidOn(all[a], call.bestSplit[1])
                                    <= CentroidOn(all[b], call.bestSplit[1])

\* A node of three triangles whose comparison left the left side empty has
\* been cut into one and two triangles.
DegenerateFallbackWitness ==
    \E k \in SplitCalls :
        /\ Len(splitLog[k].node.triangleIndices) = 3
        /\ splitLog[k].compared[1] = <<>>
        /\ Len(splitLog[k].children[1]) = 1
        /\ Len(splitLog[k].children[2]) = 2

\* The nodes of the tree below and including node, as [boundingBox, depth]
RECURSIVE NodesBelow(_)
NodesBelow(node) ==
    << [boundingBox |-> node.boundingBox, depth |-> node.depth] >>
        \o (IF node.leftChild = null THEN <<>> ELSE NodesBelow(node.leftChild[1]))
        \o (IF node.rightChild = null THEN <<>> ELSE NodesBelow(node.rightChild[1]))

\* The boxes of the wireframe, as [boundingBox, depth]
WireframeNodes ==
    [k \in 1..Len(wireframe) |->
        [boundingBox |-> wireframe[k].boundingBox, depth |-> wireframe[k].depth]]

\* C24 as the specification states it: for a scene with triangles and a
\* depth d >= 0 the wireframe holds 24 vertices for each node of depth <= d
\* and none for a deeper node, and the red channel of each vertex is
\* node.depth / maxDepth, a number from 0 to 1.
WireframePerNode ==
    (debugTris # <<>> /\ maxDepthPassed # <<>>
       /\ maxDepthPassed[1] # NaN /\ RLeq(RInt(0), maxDepthPassed[1]))
        => \A rootNode \in {buildBVH(debugTris)} :
              /\ SameElements(WireframeNodes,
                     SelectSeq(NodesBelow(rootNode[1]),
                               LAMBDA n : RLeq(RInt(n.depth), maxDepthPassed[1])))
              /\ \A k \in 1..Len(wireframe) :
                    /\ Len(wireframe[k].vertices) = 24
                    /\ wireframe[k].color[1] # NaN
                    /\ wireframe[k].color[1] =
                          Rat(wireframe[k].depth,
                              collectBVHStats(rootNode[1], 0).maxDepth)
                    /\ RLeq(RInt(0), wireframe[k].color[1])
                    /\ RLeq(wireframe[k].color[1], RInt(1))

\* The scene of one triangle: the tree is its root, maxDepth is 0 and the
\* red channel of the 24 vertices is 0 / 0.
WireframeRedNaNWitness ==
    /\ debugTris = <<TriA>>
    /\ maxDepthPassed = <<RInt(1)>>
    /\ Len(wireframe) = 1
    /\ Len(wireframe[1].vertices) = 24
    /\ wireframe[1].color[1] = NaN

\* In a tree with more than one node the wireframe is as specified: the
\* nodes of depth <= d, 24 vertices each, red = depth / maxDepth in [0, 1].
WireframePerNodeInSplitTrees ==
    (debugTris # <<>> /\ maxDepthPassed # <<>>
       /\ maxDepthPassed[1] # NaN /\ RLeq(RInt(0), maxDepthPassed[1]))
        => \A rootNode \in {buildBVH(debugTris)} :
              ~rootNode[1].isLeaf =>
                  /\ SameElements(WireframeNodes,
                         SelectSeq(NodesBelow(rootNode[1]),
                                   LAMBDA n : RLeq(RInt(n.depth), maxDepthPassed[1])))
                  /\ \A k \in 1..Len(wireframe) :
                        /\ Len(wireframe[k].vertices) = 24
                        /\ wireframe[k].color[1] =
                              Rat(wireframe[k].depth,
                                  collectBVHStats(rootNode[1], 0).maxDepth)
                        /\ RLeq(RInt(0), wireframe[k].color[1])
                        /\ RLeq(wireframe[k].color[1], RInt(1))

\* Three triangles, depth 1: the root and its two children are drawn, the
\* two nodes of depth 2 are not.
WireframeDepthLimitWitness ==
    /\ Len(debugTris) = 3
    /\ maxDepthPassed = <<RInt(1)>>
    /\ Len(NodesBelow(buildBVH(debugTris)[1])) = 5
    /\ Len(wireframe) = 3
    /\ \E k \in 1..3 : wireframe[k].color[1] = <<1, 2>>

----------------------------------------------------------------------------
(* The page over several calls of main(): src/src/main.ts.  main() runs on
   the load event and again on every change of the 'Scene' select; each
   call creates a renderer with WebGPURenderer.Create and, when the rest of
   main() gets that far, starts its render loop.

   device.createBindGroup either returns a bind group, or throws (a
   descriptor the binding layer rejects), or returns an invalid bind group
   and raises a validation error on the device without throwing. *)

\* Largest number of calls of main().
MaxMains == 3

\* Largest number of frames one renderer renders.
MaxAppFrames == 2

\* const scenes = { Spheres: ..., Boxes: ... }
scenes == [Spheres |-> "scene_spheres.json", Boxes |-> "scene_boxes.json"]

\* The outcomes of the two createBindGroup calls of
\* createBuffersAndBindGroups, in order; the second call is not made when
\* the first one throws.
BindGroupOutcomes ==
    { <<"throws">> }
        \cup { <<first, second>> : first \in {"valid", "invalid"},
                                   second \in {"valid", "invalid", "throws"} }

\* main() up to the call of WebGPURenderer.Create: the option stored for
\* the select, or 'Spheres'
main_entry(selected) ==
    [pc |-> "create",
     scene |-> scenes[IF selected = <<>> THEN "Spheres" ELSE selected[1]],
     raytracerComputeBindGroup |-> "null", accumulatorBindGroup |-> "null",
     debugPipeline |-> FALSE, bindGroups |-> <<>>,
     frameIndex |-> 0, submits |-> 0, supersededAt |-> <<>>]

\* The try block of createBuffersAndBindGroups, lines 544-615: a throw is
\* caught, reported with showError, and the function returns before the
\* debug pipeline and the debug vertex buffer are created; without a throw
\* both bind groups are set and the function goes on to await
\* createDebugPipeline().
createBuffersAndBindGroups(m, outcomes) ==
    LET threw == outcomes[Len(outcomes)] = "throws"
    IN  [renderer |->
            [m EXCEPT !.bindGroups = outcomes,
                      !.raytracerComputeBindGroup =
                          IF outcomes[1] = "throws" THEN "null" ELSE outcomes[1],
                      !.accumulatorBindGroup =
                          IF threw THEN "null" ELSE outcomes[2],
                      !.pc = IF threw THEN "setup" ELSE "debug"],
         showError |-> IF threw THEN <<"Bind group creation failed">> ELSE <<>>]

\* createDebugPipeline(), awaited at line 618: the two shader files have
\* been fetched and the pipeline is created
createDebugPipeline(m) == [m EXCEPT !.debugPipeline = TRUE]

\* The guard of render(): true when render() returns at once
render_returns_early(m) ==
    m.raytracerComputeBindGroup = "null" \/ m.accumulatorBindGroup = "null"

AppInit ==
    /\ appSelected \in {<<>>, <<"Boxes">>}
    /\ appMains = <<main_entry(appSelected)>>
    /\ appErrors = <<>>
    /\ EarlyIdle /\ SplitIdle

\* No call of main() is between the return of WebGPURenderer.Create and the
\* end of main(): that part runs in the turn of the event loop in which
\* Create returns, and no event or other continuation is delivered in it.
TurnEnded == \A k \in 1..Len(appMains) : appMains[k].pc # "setup"

\* WebGPURenderer.Create fails before createBuffersAndBindGroups (no
\* adapter, pipelines, scene): the error is shown, Create returns null and
\* main() returns.
CreateFails ==
    \E i \in 1..Len(appMains) :
        /\ TurnEnded
        /\ appMains[i].pc = "create"
        /\ appMains' = [appMains EXCEPT ![i].pc = "returned"]
        /\ appErrors' = Append(appErrors, [main |-> i, message |-> "Failed to load"])
        /\ UNCHANGED <<appSelected, earlyVars, splitVars>>

\* WebGPURenderer.Create reaches createBuffersAndBindGroups, which creates
\* the bind groups.  When a createBindGroup call throws, the function
\* returns and Create returns the renderer in the same turn; otherwise the
\* function awaits createDebugPipeline() and the event loop goes on.
CreateBindGroups ==
    \E i \in 1..Len(appMains) :
        /\ TurnEnded
        /\ appMains[i].pc = "create"
        /\ \E outcomes \in BindGroupOutcomes :
              \E r \in {createBuffersAndBindGroups(appMains[i], outcomes)} :
                 /\ appMains' = [appMains EXCEPT ![i] = r.renderer]
                 /\ appErrors' = appErrors
                        \o [k \in 1..Len(r.showError) |->
                               [main |-> i, message |-> r.showError[k]]]
        /\ UNCHANGED <<appSelected, earlyVars, splitVars>>

\* The awaited createDebugPipeline() is done, createDebugBuffers() fills
\* the debug vertex buffer, and WebGPURenderer.Create returns the renderer.
CreateReturns ==
    \E i \in 1..Len(appMains) :
        /\ TurnEnded
        /\ appMains[i].pc = "debug"
        /\ appMains' = [appMains EXCEPT
                           ![i] = [createDebugPipeline(appMains[i]) EXCEPT !.pc = "setup"]]
        /\ UNCHANGED <<appSelected, appErrors, earlyVars, splitVars>>

\* The awaited createDebugPipeline() rejects before it assigns debugPipeline
\* (a shader file is not fetched, the pipeline is not created), or it has
\* assigned debugPipeline (line 258) and the rest of it or
\* createDebugBuffers() throws: the catch of Create, lines 119-122, shows
\* 'Failed to create scene buffer' and Create returns null, with the bind
\* groups already created.
CreateDebugFails ==
    \E i \in 1..Len(appMains), assigned \in BOOLEAN :
        /\ TurnEnded
        /\ appMains[i].pc = "debug"
        /\ appMains' = [appMains EXCEPT
                           ![i] = [(IF assigned THEN createDebugPipeline(appMains[i])
                                    ELSE appMains[i]) EXCEPT !.pc = "returned"]]
        /\ appErrors' = Append(appErrors,
                               [main |-> i, message |-> "Failed to create scene buffer"])
        /\ UNCHANGED <<appSelected, earlyVars, splitVars>>

\* The guard of updateDebugBuffers, lines 330-336: the call throws 'Device
\* or BVH or debug pipeline not initialized' when the debug pipeline or the
\* debug vertex buffer is missing.
updateDebugBuffers_throws(m) == ~m.debugPipeline

\* The rest of main(): the controls are added; updateDebugBuffers throws
\* when there is no debug pipeline and main() rejects; otherwise
\* startRenderLoop() requests the first animation frame.
MainSetup ==
    \E i \in 1..Len(appMains) :
        /\ appMains[i].pc = "setup"
        /\ appMains' = [appMains EXCEPT ![i].pc =
                           IF updateDebugBuffers_throws(appMains[i])
                           THEN "rejected" ELSE "looping"]
        /\ UNCHANGED <<appSelected, appErrors, earlyVars, splitVars>>

\* An animation frame of the loop of renderer i: render(), then the next
\* frame is requested.
AnimationFrame ==
    \E i \in 1..Len(appMains) :
        /\ TurnEnded
        /\ appMains[i].pc = "looping"
        /\ appMains[i].frameIndex < MaxAppFrames
        /\ ~render_returns_early(appMains[i])
        /\ appMains' = [appMains EXCEPT ![i].frameIndex = @ + 1, ![i].submits = @ + 1]
        /\ UNCHANGED <<appSelected, appErrors, earlyVars, splitVars>>

\* A change of the 'Scene' select: the value is stored and the handler
\* calls main().
ChangeScene ==
    /\ TurnEnded
    /\ Len(appMains) < MaxMains
    /\ \E newValue \in DOMAIN scenes :
          /\ <<newValue>> # (IF appSelected = <<>> THEN <<"Spheres">> ELSE appSelected)
          /\ appSelected' = <<newValue>>
          /\ appMains' =
                Append([k \in 1..Len(appMains) |->
                           IF appMains[k].supersededAt = <<>>
                           THEN [appMains[k] EXCEPT !.supersededAt = <<appMains[k].submits>>]
                           ELSE appMains[k]],
                       main_entry(<<newValue>>))
    /\ UNCHANGED <<appErrors, earlyVars, splitVars>>

AppNext ==
    \/ CreateFails \/ CreateBindGroups \/ CreateReturns \/ CreateDebugFails
    \/ MainSetup \/ AnimationFrame \/ ChangeScene

SpecApp == AppInit /\ [][AppNext]_vars

\* A createBindGroup call of main() number i has failed
BindGroupFailed(i) ==
    \E k \in 1..Len(appMains[i].bindGroups) : appMains[i].bindGroups[k] # "valid"

\* The failure of main() number i was handed to showError
BindGroupReported(i) ==
    \E k \in 1..Len(appErrors) :
        appErrors[k] = [main |-> i, message |-> "Bind group creation failed"]

\* C25 as the specification states it: when the creation of either bind
\* group fails during WebGPURenderer.Create, the failure is reported through
\* showError and the renderer never renders a frame: its frameIndex stays 0
\* and nothing is submitted.
BindGroupFailureFatal ==
    \A i \in 1..Len(appMains) :
        BindGroupFailed(i)
            => /\ BindGroupReported(i)
               /\ appMains[i].frameIndex = 0
               /\ appMains[i].submits = 0

\* The compute bind group came back invalid without a throw: nothing was
\* shown, the loop runs, frameIndex is 2 and two command buffers were
\* submitted.
BindGroupInvalidWitness ==
    /\ Len(appMains) = 1
    /\ appMains[1].bindGroups = <<"invalid", "valid">>
    /\ appMains[1].pc = "looping"
    /\ appMains[1].frameIndex = 2
    /\ appMains[1].submits = 2
    /\ appErrors = <<>>

\* A createBindGroup call that throws is reported, and that renderer
\* neither starts its loop nor renders.
BindGroupThrowFatal ==
    \A i \in 1..Len(appMains) :
        "throws" \in Range(appMains[i].bindGroups)
            => /\ BindGroupReported(i)
               /\ appMains[i].pc # "looping"
               /\ render_returns_early(appMains[i])
               /\ appMains[i].frameIndex = 0
               /\ appMains[i].submits = 0

\* The second createBindGroup call threw: shown, main() rejected.
BindGroupThrownWitness ==
    /\ appMains[1].bindGroups = <<"valid", "throws">>
    /\ appMains[1].pc = "rejected"
    /\ BindGroupReported(1)

\* Create failed while awaiting createDebugPipeline(): 'Failed to create
\* scene buffer' is shown with both bind groups created, and main() has
\* returned.
CreateDebugFailsWitness ==
    /\ appMains[1].pc = "returned"
    /\ appMains[1].bindGroups = <<"valid", "valid">>
    /\ appMains[1].raytracerComputeBindGroup = "valid"
    /\ ~appMains[1].debugPipeline
    /\ appErrors = <<[main |-> 1, message |-> "Failed to create scene buffer"]>>

\* createDebugBuffers() threw after createDebugPipeline() had assigned the
\* pipeline: the renderer Create discards has its debug pipeline.
CreateDebugBuffersFailsWitness ==
    /\ appMains[1].pc = "returned"
    /\ appMains[1].debugPipeline
    /\ appErrors = <<[main |-> 1, message |-> "Failed to create scene buffer"]>>

\* The select was changed while the first Create awaited
\* createDebugPipeline(): the second call of main() started with the bind
\* groups of the first created and its Create not returned.
ChangeDuringCreateWitness ==
    /\ Len(appMains) = 2
    /\ appMains[1].pc = "debug"
    /\ appMains[1].bindGroups = <<"valid", "valid">>
    /\ appMains[2].pc = "create"

\* The render loops that are active
ActiveLoops == { i \in 1..Len(appMains) : appMains[i].pc = "looping" }

\* C30 as the specification states it: after any sequence of UI events,
\* changes of the 'Scene' select included, at most one render loop is
\* active, and the renderer of the scene selected before submits no frame
\* after the change.
SingleRenderLoop ==
    /\ Cardinality(ActiveLoops) <= 1
    /\ \A i \in 1..Len(appMains) :
          appMains[i].supersededAt # <<>>
              => appMains[i].submits = appMains[i].supersededAt[1]

\* The select was changed while the first renderer was looping: both loops
\* are active and the first renderer has submitted a frame since.
TwoRenderLoopsWitness ==
    /\ Len(appMains) = 2
    /\ ActiveLoops = {1, 2}
    /\ appMains[1].scene # appMains[2].scene
    /\ appMains[1].supersededAt = <<1>>
    /\ appMains[1].submits = 2
    /\ appMains[2].submits = 1

\* The calls of splitNode that made a leaf
SplitLeaves == { k \in 1..Len(splitLog) : splitLog[k].children = <<>> }

\* The triangle indices of the leaves made so far, in call order
RECURSIVE LeafIndicesUpTo(_)
LeafIndicesUpTo(k) ==
    IF k = 0 THEN <<>>
    ELSE LeafIndicesUpTo(k - 1)
            \o (IF k \in SplitLeaves THEN splitLog[k].node.triangleIndices ELSE <<>>)

\* C26: every child of an internal node holds a non-empty, strictly smaller
\* list of triangle indices than its parent, so the recursion of splitNode
\* ends: with N triangles no node is deeper than N - 1 and at most 2N - 1
\* calls are made or pending; when it has ended the leaves hold the indices
\* 0 .. N - 1 once each and there is one internal node less than leaves.
BuildTerminates ==
    LET N == Len(splitTris)
    IN  /\ \A k \in SplitCalls :
              \A side \in 1..2 :
                  /\ splitLog[k].children[side] # <<>>
                  /\ Len(splitLog[k].children[side])
                        < Len(splitLog[k].node.triangleIndices)
        /\ \A k \in 1..Len(splitLog) : splitLog[k].node.depth <= N - 1
        /\ N > 0 => Len(splitLog) + Len(splitWork) <= 2 * N - 1
        /\ (splitWork = <<>> /\ N > 0)
              => /\ SameElements(LeafIndicesUpTo(Len(splitLog)),
                                 [k \in 1..N |-> k - 1])
                 /\ Len(splitLog) = 2 * Cardinality(SplitLeaves) - 1

\* Four triangles built into a tree of depth 3, seven calls, four leaves.
BuildDeepestWitness ==
    /\ Len(splitTris) = 4
    /\ splitWork = <<>>
    /\ Len(splitLog) = 7
    /\ Cardinality(SplitLeaves) = 4
    /\ \E k \in 1..Len(splitLog) : splitLog[k].node.depth = 3

\* The node's triangles in the centroid-sorted order of the split axis
SortedOnSplitAxis(call) ==
    SortByCentroid(splitTris, call.node.triangleIndices, call.bestSplit[1].axis)

\* The number i of triangles that went left when the returned split was
\* scored: the first split index of its axis with its position and cost
ScoredIndex(call) ==
    LET hit == { i \in 1..(Len(call.node.triangleIndices) - 1) :
                   SAHCandidate(splitTris, call.node, call.bestSplit[1].axis, i)
                       = call.bestSplit[1] }
    IN  CHOOSE i \in hit : \A j \in hit : i <= j

\* The children of the call are the first i triangles of the sorted order
\* and the rest
RealisesScoredSplit(call) ==
    \A sorted \in {SortedOnSplitAxis(call)} :
        \A i \in {ScoredIndex(call)} :
            /\ SameElements(call.children[1], SubSeq(sorted, 1, i))
            /\ SameElements(call.children[2], SubSeq(sorted, i + 1, Len(sorted)))

\* C28 as the specification states it: when findBestSAHSplit returns a
\* split scored with the first i triangles of the centroid-sorted order on
\* the left, splitNode puts exactly those i triangles in the left child and
\* the rest in the right child, also when triangles share a centroid on the
\* axis.
RealisedPartitionIsScored ==
    \A k \in SplitCalls : RealisesScoredSplit(splitLog[k])

\* TriA, TriNear, TriHigh: the split was scored with TriA and TriNear on the
\* left; TriNear and TriHigh share the centroid the position falls on, and
\* the left child holds TriA alone.
RealisedPartitionDiffersWitness ==
    /\ splitTris = <<TriA, TriNear, TriHigh>>
    /\ Len(splitLog) >= 1
    /\ splitLog[1].bestSplit # null
    /\ ScoredIndex(splitLog[1]) = 2
    /\ splitLog[1].children = << <<0>>, <<1, 2>> >>

\* The split is realised as scored when the two triangles next to the
\* split position differ in their centroid on the axis.
RealisedPartitionWhenDistinct ==
    \A k \in SplitCalls :
        \A sorted \in {SortedOnSplitAxis(splitLog[k])} :
            \A i \in {ScoredIndex(splitLog[k])} :
                CentroidOn(sorted[i], splitLog[k].bestSplit[1])
                      # CentroidOn(sorted[i + 1], splitLog[k].bestSplit[1])
                    => RealisesScoredSplit(splitLog[k])

\* TriA, TriNear, TriB: scored and realised with TriA and TriNear on the
\* left.
RealisedPartitionWitness ==
    /\ splitTris = <<TriA, TriNear, TriB>>
    /\ Len(splitLog) >= 1
    /\ splitLog[1].bestSplit # null
    /\ ScoredIndex(splitLog[1]) = 2
    /\ splitLog[1].children = << <<0, 1>>, <<2>> >>

----------------------------------------------------------------------------
(* The flat arrays as the kernel reads them, checked under SpecTraverse *)

\* The number of nodes of the flat array f (twelve floats per node).
FlatNodeCount(f) == Len(f.nodes) \div 12

FlatIsLeaf(f, k) == 2 * FlatNodeAt(f, k).is_leaf > 1

\* The positions of triangleIndices that the leaf at index k of f owns.
FlatLeafSlice(f, k) ==
    LET n == FlatNodeAt(f, k)
    IN  n.left_or_triangle_start ..
            (n.left_or_triangle_start + n.right_or_triangle_count - 1)

\* The child slots of the flat array f: the left child follows its parent,
\* the right child comes later, both are nodes of the array; the slices of
\* the leaves are pairwise disjoint and cover the positions 0..N-1 of
\* triangleIndices.
FlatChildIndicesOrdered(f) ==
    LET count == FlatNodeCount(f)
        leaves == { k \in 0..(count - 1) : FlatIsLeaf(f, k) }
    IN  /\ \A k \in (0..(count - 1)) \ leaves :
              LET n == FlatNodeAt(f, k)
              IN  /\ n.left_or_triangle_start = k + 1
                  /\ n.right_or_triangle_count > n.left_or_triangle_start
                  /\ n.left_or_triangle_start < count
                  /\ n.right_or_triangle_count < count
        /\ \A k \in leaves : \A j \in leaves :
              k # j => FlatLeafSlice(f, k) \cap FlatLeafSlice(f, j) = {}
        /\ UNION { FlatLeafSlice(f, k) : k \in leaves }
              = 0..(Len(f.triangleIndices) - 1)

\* The log positions of the pops.
TravPops == { i \in 1..Len(travLog) : travLog[i].ev = "pop" }

\* ray_bvh_triangles reads the array that serializeBVH produced.
ReadsSerializedArray == travBuffers[1] = serializeBVH(travTree)

\* C27: in the node array produced by serializeBVH every internal node at
\* index k has its left child at k + 1 and its right child at a larger
\* index, both below the node count, and the slices of the leaves are
\* pairwise disjoint and cover the positions 0..N-1; ray_bvh_triangles on
\* that array, started at node 0, pops each node at most once, runs at most
\* as many iterations as there are nodes, and has emptied its stack once
\* every node it can reach has been popped.
FlatIndicesAcyclic ==
    /\ FlatChildIndicesOrdered(serializeBVH(travTree))
    /\ ReadsSerializedArray =>
          /\ \A i \in TravPops : \A j \in TravPops :
                i # j => travLog[i].node # travLog[j].node
          /\ \A i \in TravPops : travLog[i].node < FlatNodeCount(travBuffers[1])
          /\ Cardinality(TravPops) <= FlatNodeCount(travBuffers[1])
          /\ Cardinality(TravPops) = FlatNodeCount(travBuffers[1])
                => trav[1].stack_ptr = 0

\* The ray meets every box of a tree of five nodes (two internal nodes,
\* three leaves); the five nodes were popped once each, in five iterations,
\* and the function returned.
FlatTraversalEndsWitness ==
    /\ travTree # null
    /\ ReadsSerializedArray
    /\ FlatNodeCount(travBuffers[1]) = 5
    /\ travRay[1].boxes = 0..4
    /\ Cardinality(TravPops) = 5
    /\ { travLog[i].node : i \in TravPops } = 0..4
    /\ travLog[Len(travLog)].ev = "return"

----------------------------------------------------------------------------
(* ray_bvh_triangles on deep trees *)

\* A tree in which every internal node has a leaf as its right child and the
\* rest of the tree as its left child: the node at depth d of a tree whose
\* deepest leaves are at depth last.  The leaves hold one triangle each.
RECURSIVE LeftDeepNode(_, _)
LeftDeepNode(d, last) ==
    IF d = last
    THEN [boundingBox |-> [min |-> <<d, 0, 0>>, max |-> <<d + 1, 1, 1>>],
          triangleIndices |-> <<d>>, leftChild |-> null, rightChild |-> null,
          isLeaf |-> TRUE, depth |-> d]
    ELSE [boundingBox |-> [min |-> <<d, 0, 0>>, max |-> <<last + 1, 1, 1>>],
          triangleIndices |-> <<>>,
          leftChild |-> <<LeftDeepNode(d + 1, last)>>,
          rightChild |->
              <<[boundingBox |-> [min |-> <<d, 0, 0>>, max |-> <<d + 1, 1, 1>>],
                 triangleIndices |-> <<d>>, leftChild |-> null,
                 rightChild |-> null, isLeaf |-> TRUE, depth |-> d + 1]>>,
          isLeaf |-> FALSE, depth |-> d]

\* Node k of the array flattenBVH and serializeBVH produce for
\* LeftDeepNode(0, last): the internal nodes 0..last-1 follow each other, the
\* deepest left leaf is node last, and the right leaves follow from the
\* deepest one up to the root's.
DeepFlatNode(k, last) ==
    IF k < last
    THEN <<k, 0, 0, 0, last + 1, 1, 1, k + 1, 2 * last - k, 0, 0, 0>>
    ELSE IF k = last
    THEN <<last, 0, 0, 0, last + 1, 1, 1, 0, 1, 1, 0, 0>>
    ELSE <<2 * last - k, 0, 0, 0, 2 * last - k + 1, 1, 1, k - last, 1, 1, 0, 0>>

DeepFlat(last) ==
    [nodes |-> [i \in 1..(12 * (2 * last + 1)) |->
                   DeepFlatNode((i - 1) \div 12, last)[((i - 1) % 12) + 1]],
     triangleIndices |-> [p \in 1..(last + 1) |-> last + 1 - p]]

\* The arrays of the deepest tree whose traversal finds room on the stack for
\* every child, and of the tree one level deeper.
DeepArrays == { DeepFlat(last) : last \in {stack_size - 2, stack_size - 1} }

\* DeepFlat is what the code produces for trees of a few levels.
DeepFlatIsSerialized ==
    \A last \in 1..6 : DeepFlat(last) = serializeBVH(<<LeftDeepNode(0, last)>>)

\* The distances at which a ray meets the triangles 0..n-1 (-1: no hit): none,
\* all at 1, nearer with the index, farther with the index, every other one.
HitPatterns(n) ==
    { [k \in 0..(n - 1) |-> -1], [k \in 0..(n - 1) |-> 1],
      [k \in 0..(n - 1) |-> n - k], [k \in 0..(n - 1) |-> k + 1],
      [k \in 0..(n - 1) |-> IF k % 2 = 0 THEN -1 ELSE n - k] }

\* The rays on the buffers bufs: on a small tree any set of nodes whose box
\* the ray meets; on a deep tree the ray meets every box, or the boxes of the
\* internal nodes and of the deepest leaves, or every box but the root's.
DeepRays(bufs) ==
    LET count == arrayLengthNodes(bufs)
        nodes == 0..(count - 1)
        internal == { k \in nodes : ~(2 * FlatNodeAt(bufs, k).is_leaf > 1) }
        boxSets == IF count <= 5 THEN SUBSET nodes
                   ELSE { nodes, internal \cup {(count - 1) \div 2, (count + 1) \div 2}, nodes \ {0} }
    IN  { [boxes |-> b, hits |-> h] :
            b \in boxSets, h \in HitPatterns(Len(bufs.triangleIndices)) }

\* ray_bvh_triangles is called with a ray on the buffers of a scene or on
\* the array of a deep tree (travTree is null then: only the array is held).
TravDeepInit ==
    /\ \/ \E rootNode \in TravTrees :
             /\ travTree = rootNode
             /\ travBuffers = <<TravBuffersOf(rootNode)>>
       \/ \E f \in DeepArrays :
             /\ travTree = null
             /\ travBuffers = <<CreateBVHBuffers(f)>>
    /\ travRay \in { <<r>> : r \in DeepRays(travBuffers[1]) }
    /\ trav = <<ray_bvh_triangles_entry(travBuffers[1])>>
    /\ travLog = <<>>
    /\ BVHIdle /\ PageIdle /\ PathIdle /\ MISIdle /\ DebugIdle /\ LoaderIdle
    /\ FrameIdle /\ SphereIdle /\ LateIdle

SpecTraverseDeep == TravDeepInit /\ [][TravNext]_vars

\* The nodes the ray reaches from node 0 through nodes whose box it meets.
RECURSIVE HitReach(_, _, _)
HitReach(bufs, r, S) ==
    LET more == S \cup UNION { ChildrenOf(bufs, n) : n \in S \cap r.boxes }
    IN  IF more = S THEN S ELSE HitReach(bufs, r, more)

\* The leaves whose own box and whose ancestors' boxes the ray all meets.
HitLeaves(bufs, r) ==
    { k \in HitReach(bufs, r, {0}) \cap r.boxes : FlatIsLeaf(bufs, k) }

\* The number of levels below the nodes of S, which are at depth d; the
\* count stops at the number of nodes (child slots that point back never end).
RECURSIVE FlatLevels(_, _, _)
FlatLevels(bufs, S, d) ==
    LET next == UNION { ChildrenOf(bufs, n) : n \in S }
    IN  IF next = {} \/ d >= FlatNodeCount(bufs) THEN d
        ELSE FlatLevels(bufs, next, d + 1)

\* bufs holds a flattened BVH (the child slots and slices are those
\* flattenBVH assigns) whose deepest node is at depth limit or less.
FlatBVHWithin(bufs, limit) ==
    /\ FlatLevels(bufs, {0}, 0) <= limit
    /\ FlatChildIndicesOrdered(bufs)

\* The log positions of the triangle tests.
TravTests == { i \in 1..Len(travLog) : travLog[i].ev = "test" }

TravReturned == travLog # <<>> /\ travLog[Len(travLog)].ev = "return"

\* The smallest element of a non-empty set of integers.
MinOf(T) == CHOOSE x \in T : \A y \in T : x <= y

\* C29: on every flattened BVH whose maximum depth is at most 62,
\* ray_bvh_triangles drops no push of a child; when it returns, every
\* triangle of every leaf whose own box and whose ancestors' boxes the ray
\* all meets was tested exactly once (and no other triangle was tested), and
\* the hit it returns is the one with the smallest positive t among the
\* tested triangles, or no hit when no tested triangle has a positive t.
\* (Written as "the conclusion holds, or the array is no such BVH".)
TraversalComplete ==
    \/ /\ \A i \in 1..Len(travLog) : travLog[i].ev # "drop"
       /\ TravReturned =>
             LET bufs == travBuffers[1]
                 r == travRay[1]
                 leaves == HitLeaves(bufs, r)
                 expected == UNION { { bufs.triangleIndices[j + 1] :
                                         j \in FlatLeafSlice(bufs, k) } : k \in leaves }
                 tested == { travLog[i].node : i \in TravTests }
                 positive == { r.hits[x] : x \in { y \in tested : r.hits[y] > 0 } }
             IN  /\ \A k \in leaves :
                       Cardinality({ i \in TravPops : travLog[i].node = k }) = 1
                 /\ tested = expected
                 /\ Cardinality(TravTests) = Cardinality(expected)
                 /\ IF positive = {} THEN trav[1].closest_hit = <<>>
                    ELSE /\ trav[1].closest_hit # <<>>
                         /\ trav[1].closest_hit[1].t = MinOf(positive)
                         /\ trav[1].closest_hit[1].triangle \in tested
                         /\ r.hits[trav[1].closest_hit[1].triangle] = MinOf(positive)
    \/ ~FlatBVHWithin(travBuffers[1], 62)

\* The tree of depth 62 (125 nodes, 63 triangles) and the ray that meets
\* every box and meets the triangles farther with their index: the stack
\* held 63 indices, every push was made, the 63 triangles were tested once
\* each and the call returned the hit at t = 1 on triangle 0, which is in
\* the leaf popped last.
DeepTraversalWitness ==
    /\ TravReturned
    /\ FlatNodeCount(travBuffers[1]) = 125
    /\ FlatBVHWithin(travBuffers[1], 62)
    /\ travRay[1].boxes = 0..124
    /\ travRay[1].hits[0] = 1 /\ travRay[1].hits[62] = 63
    /\ \E i \in 1..Len(travLog) : travLog[i].ev = "push" /\ travLog[i].size = 62
    /\ Cardinality(TravTests) = 63
    /\ Cardinality(TravPops) = 125
    /\ trav[1].closest_hit = <<[t |-> 1, triangle |-> 0]>>
    /\ travLog[Len(travLog) - 1] = [ev |-> "test", node |-> 0, size |-> 0]

\* The tree of depth 63 and the ray that meets every box: the push of the
\* left child of the internal node at depth 62 was dropped, and the call
\* returned without having tested the triangle of the deepest left leaf.
DeepTreeDropWitness ==
    /\ TravReturned
    /\ FlatLevels(travBuffers[1], {0}, 0) = 63
    /\ FlatChildIndicesOrdered(travBuffers[1])
    /\ \E i \in 1..Len(travLog) : travLog[i].ev = "drop" /\ travLog[i].size = 63
    /\ 63 \in HitLeaves(travBuffers[1], travRay[1])
    /\ \A i \in TravPops : travLog[i].node # 63
    /\ Cardinality(TravTests) = 63

====
